---- MODULE Spec2Model ----
(***************************************************************************)
(* Model of the animation engine (device.AnimationEngine), of the tasks    *)
(* it launches and of the L10 hand (models.L10Hand) that it drives.        *)
(*                                                                         *)
(* Threads are goroutines.  A task is the goroutine launched by one        *)
(* successful Start; it is bound to the stop channel that Start made, so   *)
(* task k and channel k share the number k (the k-th channel made).        *)
(* A caller is a goroutine of the API layer that calls one operation of    *)
(* the engine or of the device at a time.                                  *)
(*                                                                         *)
(* sync.Mutex / sync.RWMutex are not reentrant: Lock and RLock block while *)
(* a writer holds the lock, whoever the writer is.                         *)
(*                                                                         *)
(* Spec / FairSpec:  the engine with the L10 hand as its executor.         *)
(* ExecSpec / FairExecSpec:  the engine and the run-callbacks over any     *)
(*                   PoseExecutor whose calls return.                      *)
(* HandlerSpec:      the same with the handler of finger-pose requests.    *)
(* EncoderSpec:      L10Hand.commandToRawMessage as a function of the      *)
(*                   hand side and the command.                            *)
(* PerturbSpec:      perturb as a function of the byte, the delta and the  *)
(*                   random draw.                                          *)
(* FactorySpec:      the device factory (RegisterDeviceType, CreateDevice).*)
(* SensorSpec:       the sampling rate of a PressureSensor.                *)
(***************************************************************************)
EXTENDS Integers, Sequences, FiniteSets, TLC

\* ------------------------------------------------------------------ bounds
MaxRuns == 2        \* successful Start calls (stop channels made) per behaviour
NumCallers == 1     \* API goroutines that call the engine and the device
MaxPayload == 8     \* longest command payload given to the encoder
EdgeWidth == 9      \* pose bytes this close to 0 and to 255 are perturbed
RateEdge == 5       \* sampling rates this close to 0 and to the maximum are tried
MaxLegacyRuns == 2  \* legacy animation goroutines launched
MaxManagerCallers == 2  \* goroutines calling the device manager
MaxSends == 2       \* times a stored pose is passed to a setter

\* ----------------------------------------------------------------- threads
NoThread == 0
Tasks == 1..MaxRuns
LegacyTasks == 1..MaxLegacyRuns
ManagerCallers == 1..MaxManagerCallers
Callers == (MaxRuns + 1)..(MaxRuns + NumCallers)
Threads == Tasks \cup Callers

\* define.HandType, hands.go lines 5-9.
HAND_TYPE_LEFT == 40
HAND_TYPE_RIGHT == 39
HAND_TYPE_UNKNOWN == 0

\* commandToRawMessage: the prefixes of lines 201 and 207, the CAN data
\* limit of lines 202 and 208; the pose lengths of lines 124 and 149.
FingerOpcode == 1
PalmOpcode == 4
CanDataLimit == 8
FingerPoseLen == 6
PalmPoseLen == 4

\* PressureSensor: the rate of NewPressureSensor (part_006 line 24) and the
\* largest rate SetSamplingRate takes (line 73).
DefaultSamplingRate == 100
WaveSteps == 12
SwaySteps == 2
MaxSamplingRate == 1000

\* perturb: the largest byte (line 36) and the deltas the setters pass
\* (SetFingerPose line 131, SetPalmPose line 156).
ByteMax == 255
FingerDelta == 5
PalmDelta == 8

\* Pose bytes, and the payloads a caller may put in a command: every length
\* up to MaxPayload, filled with one byte or with bytes that all differ
\* (10, 20, ...), so that the order of the bytes shows.
Bytes == {0, 64, 255}
Payloads ==
    {[i \in 1..n |-> b] : n \in 0..MaxPayload, b \in Bytes}
        \cup {[i \in 1..n |-> 10 * i] : n \in 0..MaxPayload}
\* Command.Type() of FingerPoseCommand, of PalmPoseCommand, and one that a
\* GenericCommand may carry.
CommandTypes == {"SetFingerPose", "SetPalmPose", "SetSpeed"}
HandTypes == {HAND_TYPE_LEFT, HAND_TYPE_RIGHT, HAND_TYPE_UNKNOWN}

\* L10Hand.canInterface: the "can_interface" of the configuration the device
\* was built with (NewL10Hand lines 54-57, 74); "can0" is the default.
canInterface == "can1"

\* No direct call made yet, and the zero communication.RawMessage with no
\* error.  A call is recorded with its function name and its arguments: the
\* hand side of SetHandType; the command type and payload of
\* commandToRawMessage; the channel and the byte of perturb; the model name
\* of RegisterDeviceType and CreateDevice (in type); the rate of
\* SetSamplingRate (in payload).
NoCall == [fn |-> "", handType |-> HAND_TYPE_UNKNOWN, type |-> "", payload |-> <<>>]
NoResult == [err |-> "", Interface |-> "", ID |-> 0, Data |-> <<>>]

\* The registration table after NewL10Hand: "wave" and "sway".
animations == {"wave", "sway"}

\* The pose arrays the code keeps and passes to the setters: the neutral
\* poses of ResetPose (part_007 lines 174-175) and the poses of the sway
\* animation (part_002 lines 89-90).
defaultFingerPose == [i \in 1..FingerPoseLen |-> 64]
defaultPalmPose == [i \in 1..PalmPoseLen |-> 128]
leftPose == [i \in 1..PalmPoseLen |-> 48]
rightPose == [i \in 1..PalmPoseLen |-> 208]
StoredPoses == {defaultFingerPose, defaultPalmPose, leftPose, rightPose}
NoSetter == [fn |-> "", pc |-> "idle", i |-> 1, err |-> "", sends |-> 0]

DeviceIds == {"left", "right"}
ManagerOps == {"RegisterDevice", "GetDevice", "RemoveDevice"}
NoManagerCall == [pc |-> "idle", op |-> "", id |-> "", exists |-> FALSE,
                  err |-> "", dev |-> 0]

\* src/hands/animation.go.  The interfaces are those of the configuration;
\* one is configured here, and it is the default interface.
AvailableInterfaces == {"can0"}
DefaultInterface == "can0"
InterfaceNames == {"", "can0", "can9"}
\* Names a caller may pass to Start: the registered ones and one that is not.
StartNames == animations \cup {"nod"}
\* Operations of the engine and of the device that the API layer calls.
Ops == {"Start", "Stop", "Connect", "Disconnect", "SetFingerPose"}

VARIABLES
    isRunning,        \* AnimationEngine.isRunning
    current,          \* AnimationEngine.current ("" when none)
    stopChan,         \* AnimationEngine.stopChan: 0 is nil, k the k-th channel
    engineMutex,      \* holder of AnimationEngine.engineMutex, or NoThread
    registerReaders,  \* threads holding AnimationEngine.registerMutex.RLock
    closed,           \* the stop channels that have been closed
    chanCount,        \* number of stop channels made so far
    pc,               \* position of every thread
    site,             \* per thread: who called the pose setter it is in ("" when in none)
    op,               \* per caller: the operation it called last
    arg,              \* per caller: the name passed to Start
    ret,              \* per caller: what its last operation returned
    isConnected,      \* L10Hand.status.IsConnected
    isActive,         \* L10Hand.status.IsActive
    hmutex,           \* writer holding L10Hand.mutex, or NoThread
    resetSinceStart,  \* history: ResetPose calls of the engine since the last Start
    exitAs,           \* history, per task: the branch its exit handling took
    errorCount,       \* L10Hand.status.ErrorCount
    lastError,        \* L10Hand.status.LastError ("" when none)
    lastUpdate,       \* L10Hand.status.LastUpdate: the operation that wrote it last
    sendCalls,        \* history: calls of communicator.SendMessage made so far
    handType,         \* L10Hand.handType
    call,             \* the last direct call of a function: its name and arguments
    result,           \* what that call returned
    constructors,     \* DeviceFactory.constructors of defaultFactory
    invoked,          \* history: the constructor the last CreateDevice invoked ("" when none)
    samplingRate,     \* PressureSensor.samplingRate
    stopped,          \* history, per caller: the channel the Stop of its pose request closed
    deliveredAfter,   \* history, per caller: whose pose the executor took last after its pose request
    posesAfterSignal, \* history, per task: animation pose commands that returned with its channel closed
    legacy,           \* the legacy animation code (src/hands/animation.go)
    manager,          \* the device manager and its callers (src/unnamed/part_004)
    poses             \* a caller's pose array and a pose setter at work on it

engineVars == <<isRunning, current, stopChan>>
lockVars == <<engineMutex, registerReaders, hmutex>>
deviceVars == <<isConnected, isActive>>
histVars == <<resetSinceStart, exitAs>>
statusVars == <<errorCount, lastError, lastUpdate, sendCalls>>
encVars == <<handType, call, result>>
compVars == <<constructors, invoked, samplingRate>>
orderVars == <<stopped, deliveredAfter, posesAfterSignal>>
legacyVars == <<legacy>>
mgrVars == <<manager>>
poseVars == <<poses>>
extVars == <<legacyVars, mgrVars, poseVars>>
baseVars == <<engineVars, lockVars, closed, chanCount, pc, site, op, arg, ret,
              deviceVars, histVars, statusVars, encVars, compVars, orderVars>>
vars == <<isRunning, current, stopChan, engineMutex, registerReaders, closed,
          chanCount, pc, site, op, arg, ret, isConnected, isActive, hmutex,
          resetSinceStart, exitAs, errorCount, lastError, lastUpdate,
          sendCalls, handType, call, result, constructors, invoked,
          samplingRate, stopped, deliveredAfter, posesAfterSignal,
          legacy, manager, poses>>

\* The legacy animation state: the package variables of animation.go, which
\* are nil until initAnimation has run (lines 10-14).
nilAnimation == [AnimationActive |-> <<>>, StopAnimationMap |-> <<>>,
                 stopBuffer |-> {}, stopSent |-> {}, tasks |-> <<>>]
animation == IF DOMAIN legacy = {} THEN nilAnimation ELSE legacy

\* hands.AnimationActive, per interface
AnimationActive == animation.AnimationActive
\* hands.StopAnimationMap, per interface: the k-th channel made for it
StopAnimationMap == animation.StopAnimationMap
\* the stop channels whose one-slot buffer holds a signal
stopBuffer == animation.stopBuffer
\* history: the goroutines whose channel was sent a signal
stopSent == animation.stopSent
\* position of every legacy animation goroutine
legacyPc ==
    [k \in LegacyTasks |->
        IF k <= Len(animation.tasks) THEN animation.tasks[k].pc ELSE "unborn"]
\* per goroutine: the channel it captured (lines 60, 174)
currentStopChannel ==
    [k \in LegacyTasks |->
        IF k <= Len(animation.tasks)
        THEN animation.tasks[k].currentStopChannel ELSE 0]
\* per goroutine: "wave" or "sway" ("" before launch)
legacyKind ==
    [k \in LegacyTasks |->
        IF k <= Len(animation.tasks) THEN animation.tasks[k].kind ELSE ""]
\* per goroutine: index of the pose in its cycle
legacyStep ==
    [k \in LegacyTasks |->
        IF k <= Len(animation.tasks) THEN animation.tasks[k].step ELSE 0]

\* The device manager's state; there is none until NewDeviceManager has run.
nilManager == [devices |-> <<>>, managerMutex |-> NoThread,
               managerReaders |-> {}, calls |-> <<>>,
               registered |-> [i \in DeviceIds |-> {}]]
deviceManager == IF DOMAIN manager = {} THEN nilManager ELSE manager

\* DeviceManager.devices: id -> the device stored under it
devices == deviceManager.devices
\* writer holding DeviceManager.mutex, or NoThread
managerMutex == deviceManager.managerMutex
\* callers holding DeviceManager.mutex.RLock
managerReaders == deviceManager.managerReaders
\* per caller: its call, where it is in it, what it read, what it returned
mgrCall ==
    [c \in ManagerCallers |->
        IF c \in DOMAIN deviceManager.calls THEN deviceManager.calls[c]
        ELSE NoManagerCall]
\* position of every caller of the manager
mgrPc == [c \in ManagerCallers |-> mgrCall[c].pc]
\* history, per id: callers whose RegisterDevice succeeded since the id was
\* last removed
registered == deviceManager.registered

\* The pose setters' state; there is none until a caller has made a pose.
nilPoses == [storedPose |-> <<>>, poseBase |-> <<>>, perturbedPose |-> <<>>,
             setter |-> NoSetter]
poseState == IF DOMAIN poses = {} THEN nilPoses ELSE poses

\* the pose array a caller keeps and passes
storedPose == poseState.storedPose
\* history: the values the caller put into it
poseBase == poseState.poseBase
\* the setter's local slice (part_007 lines 129, 154)
perturbedPose == poseState.perturbedPose
\* the setter call in progress: which, loop index, passes made
setter == poseState.setter

\* ------------------------------------------------------------------- Init
\* NewL10Hand + NewAnimationEngine: nothing runs, no channel, not connected,
\* no error recorded, LastUpdate written by the constructor (line 78), and
\* the hand side of the default configuration (line 60).  The factory has
\* the empty table of part_000 lines 10-12, and a pressure sensor the rate
\* NewPressureSensor gives it (part_006 line 24).
Init ==
    /\ isRunning = FALSE
    /\ current = ""
    /\ stopChan = 0
    /\ engineMutex = NoThread
    /\ registerReaders = {}
    /\ closed = {}
    /\ chanCount = 0
    /\ pc = [t \in Threads |-> IF t \in Tasks THEN "unborn" ELSE "idle"]
    /\ site = [t \in Threads |-> ""]
    /\ op = [c \in Callers |-> ""]
    /\ arg = [c \in Callers |-> ""]
    /\ ret = [c \in Callers |-> ""]
    /\ isConnected = FALSE
    /\ isActive = FALSE
    /\ hmutex = NoThread
    /\ resetSinceStart = 0
    /\ exitAs = [k \in Tasks |-> "none"]
    /\ errorCount = 0
    /\ lastError = ""
    /\ lastUpdate = "NewL10Hand"
    /\ sendCalls = 0
    /\ handType = HAND_TYPE_RIGHT
    /\ call = NoCall
    /\ result = NoResult
    /\ constructors = [m \in {} |-> ""]
    /\ invoked = ""
    /\ samplingRate = DefaultSamplingRate
    /\ stopped = [c \in Callers |-> 0]
    /\ deliveredAfter = [c \in Callers |-> NoThread]
    /\ posesAfterSignal = [k \in Tasks |-> 0]
    /\ legacy = <<>>
    /\ manager = <<>>
    /\ poses = <<>>

\* ---------------------------------------------------------------- helpers
\* Start calls that have not yet made their channel.
PendingStarts ==
    Cardinality({c \in Callers : pc[c] \in {"Start", "getAnimation", "StartBody"}
                                  /\ arg[c] \in animations})

\* A loop that tries again after a callback error instead of returning.
PoseFailed_Retries(t) ==
    /\ site' = [site EXCEPT ![t] = ""]
    /\ IF site[t] = "Run"
       THEN /\ pc' = [pc EXCEPT ![t] = "loop"]
            /\ UNCHANGED <<engineMutex, ret>>
       ELSE IF site[t] = "ResetPose"
       THEN /\ pc' = [pc EXCEPT ![t] = "done"]
            /\ engineMutex' = NoThread
            /\ ret' = ret
       ELSE /\ pc' = [pc EXCEPT ![t] = "idle"]
            /\ ret' = [ret EXCEPT ![t] = "DeviceNotReady"]
            /\ engineMutex' = engineMutex

\* A pose setter returned an error to the place that called it.
\*   Run:       the callback returns the error, the loop logs it and returns
\*              (lines 190-193); the deferred exit handling is next.
\*   ResetPose: ResetPose returns the error (lines 177-180), the exit handling
\*              logs it, releases the engine lock and the goroutine ends.
\*   api:       the API goroutine gets the error.
PoseFailed(t) ==
    /\ site' = [site EXCEPT ![t] = ""]
    /\ IF site[t] = "Run"
       THEN /\ pc' = [pc EXCEPT ![t] = "exit"]
            /\ UNCHANGED <<engineMutex, ret>>
       ELSE IF site[t] = "ResetPose"
       THEN /\ pc' = [pc EXCEPT ![t] = "done"]
            /\ engineMutex' = NoThread
            /\ ret' = ret
       ELSE /\ pc' = [pc EXCEPT ![t] = "idle"]
            /\ ret' = [ret EXCEPT ![t] = "DeviceNotReady"]
            /\ engineMutex' = engineMutex

\* ------------------------------------------------------------ API callers
\* An API goroutine calls one operation.  Start takes its argument here;
\* SetFingerPose with a 6-byte pose perturbs it, builds the command and calls
\* ExecuteCommand, which is where it may have to wait.
Invoke(c) ==
    /\ pc[c] = "idle"
    /\ ret' = [ret EXCEPT ![c] = ""]
    /\ \E o \in Ops :
         /\ op' = [op EXCEPT ![c] = o]
         /\ IF o = "Start"
           THEN /\ chanCount + PendingStarts < MaxRuns
                /\ \E n \in StartNames : arg' = [arg EXCEPT ![c] = n]
                /\ pc' = [pc EXCEPT ![c] = "Start"]
                /\ site' = site
           ELSE IF o = "SetFingerPose"
           THEN /\ pc' = [pc EXCEPT ![c] = "ExecuteCommand"]
                /\ site' = [site EXCEPT ![c] = "api"]
                /\ arg' = arg
           ELSE /\ pc' = [pc EXCEPT ![c] = o]
                /\ UNCHANGED <<arg, site>>
    /\ UNCHANGED <<engineVars, lockVars, closed, chanCount, deviceVars, histVars, statusVars, encVars,
                   compVars, orderVars, extVars>>

\* ----------------------------------------------------------------- engine
\* Start, line 89: e.engineMutex.Lock().
StartLock(c) ==
    /\ pc[c] = "Start"
    /\ engineMutex = NoThread
    /\ engineMutex' = c
    /\ pc' = [pc EXCEPT ![c] = "getAnimation"]
    /\ UNCHANGED <<engineVars, registerReaders, hmutex, closed, chanCount, site,
                   op, arg, ret, deviceVars, histVars, statusVars, encVars,
                   compVars, orderVars, extVars>>

\* getAnimation, called by Start with the engine lock held: registerMutex.RLock().
\* No goroutine writes the table after construction, so the read lock is free.
getAnimation(c) ==
    /\ pc[c] = "getAnimation"
    /\ registerReaders' = registerReaders \cup {c}
    /\ pc' = [pc EXCEPT ![c] = "StartBody"]
    /\ UNCHANGED <<engineVars, engineMutex, hmutex, closed, chanCount, site, op,
                   arg, ret, deviceVars, histVars, statusVars, encVars,
                   compVars, orderVars, extVars>>

\* Start without line 100: the running animation is not signalled.
Start_NoSignal(c) ==
    /\ pc[c] = "StartBody"
    /\ registerReaders' = registerReaders \ {c}
    /\ engineMutex' = NoThread
    /\ arg' = [arg EXCEPT ![c] = ""]
    /\ IF arg[c] \notin animations
       THEN /\ ret' = [ret EXCEPT ![c] = "UnknownAnimation"]
            /\ pc' = [pc EXCEPT ![c] = "idle"]
            /\ UNCHANGED <<engineVars, closed, chanCount, resetSinceStart>>
       ELSE /\ closed' = closed
            /\ chanCount' = chanCount + 1
            /\ stopChan' = chanCount + 1
            /\ isRunning' = TRUE
            /\ current' = arg[c]
            /\ pc' = [pc EXCEPT ![c] = "idle", ![chanCount + 1] = "loop"]
            /\ ret' = [ret EXCEPT ![c] = "nil"]
            /\ resetSinceStart' = 0
    /\ UNCHANGED <<hmutex, site, op, deviceVars, exitAs, statusVars, encVars,
                   compVars, orderVars, extVars>>

\* Start that closes the stored channel whether or not it is running.
Start_SignalsAlways(c) ==
    /\ pc[c] = "StartBody"
    /\ registerReaders' = registerReaders \ {c}
    /\ engineMutex' = NoThread
    /\ arg' = [arg EXCEPT ![c] = ""]
    /\ IF arg[c] \notin animations
       THEN /\ ret' = [ret EXCEPT ![c] = "UnknownAnimation"]
            /\ pc' = [pc EXCEPT ![c] = "idle"]
            /\ UNCHANGED <<engineVars, closed, chanCount, resetSinceStart>>
       ELSE /\ closed' = closed \cup {stopChan}
            /\ chanCount' = chanCount + 1
            /\ stopChan' = chanCount + 1
            /\ isRunning' = TRUE
            /\ current' = arg[c]
            /\ pc' = [pc EXCEPT ![c] = "idle", ![chanCount + 1] = "loop"]
            /\ ret' = [ret EXCEPT ![c] = "nil"]
            /\ resetSinceStart' = 0
    /\ UNCHANGED <<hmutex, site, op, deviceVars, exitAs, statusVars, encVars,
                   compVars, orderVars, extVars>>

\* Start that signals the running animation (line 100) before it looks the
\* name up (lines 92-95).
Start_ChecksNameLate(c) ==
    /\ pc[c] = "StartBody"
    /\ registerReaders' = registerReaders \ {c}
    /\ engineMutex' = NoThread
    /\ arg' = [arg EXCEPT ![c] = ""]
    /\ closed' = IF isRunning THEN closed \cup {stopChan} ELSE closed
    /\ IF arg[c] \notin animations
       THEN /\ ret' = [ret EXCEPT ![c] = "UnknownAnimation"]
            /\ pc' = [pc EXCEPT ![c] = "idle"]
            /\ UNCHANGED <<engineVars, chanCount, resetSinceStart>>
       ELSE /\ chanCount' = chanCount + 1
            /\ stopChan' = chanCount + 1
            /\ isRunning' = TRUE
            /\ current' = arg[c]
            /\ pc' = [pc EXCEPT ![c] = "idle", ![chanCount + 1] = "loop"]
            /\ ret' = [ret EXCEPT ![c] = "nil"]
            /\ resetSinceStart' = 0
    /\ UNCHANGED <<hmutex, site, op, deviceVars, exitAs, statusVars, encVars,
                   compVars, orderVars, extVars>>

\* The rest of getAnimation (lookup, RUnlock) and of Start, lines 93-122, and
\* the deferred Unlock.  The new goroutine starts at the top of its loop.
Start(c) ==
    /\ pc[c] = "StartBody"
    /\ registerReaders' = registerReaders \ {c}
    /\ engineMutex' = NoThread
    /\ arg' = [arg EXCEPT ![c] = ""]
    /\ IF arg[c] \notin animations
       THEN /\ ret' = [ret EXCEPT ![c] = "UnknownAnimation"]
            /\ pc' = [pc EXCEPT ![c] = "idle"]
            /\ UNCHANGED <<engineVars, closed, chanCount, resetSinceStart>>
       ELSE /\ closed' = IF isRunning THEN closed \cup {stopChan} ELSE closed
            /\ chanCount' = chanCount + 1
            /\ stopChan' = chanCount + 1
            /\ isRunning' = TRUE
            /\ current' = arg[c]
            /\ pc' = [pc EXCEPT ![c] = "idle", ![chanCount + 1] = "loop"]
            /\ ret' = [ret EXCEPT ![c] = "nil"]
            /\ resetSinceStart' = 0
    /\ UNCHANGED <<hmutex, site, op, deviceVars, exitAs, statusVars, encVars,
                   compVars, orderVars, extVars>>

\* Stop without the test of line 130: it signals and clears whatever is there.
Stop_NoGuard(c) ==
    /\ pc[c] = "Stop"
    /\ engineMutex = NoThread
    /\ closed' = closed \cup {stopChan}
    /\ isRunning' = FALSE
    /\ current' = ""
    /\ stopChan' = stopChan
    /\ ret' = [ret EXCEPT ![c] = "nil"]
    /\ pc' = [pc EXCEPT ![c] = IF op[c] = "handleSetFingerPose"
                                  THEN "SetFingerPose" ELSE "idle"]
    /\ stopped' = IF op[c] = "handleSetFingerPose" /\ isRunning
                     THEN [stopped EXCEPT ![c] = stopChan] ELSE stopped
    /\ UNCHANGED <<lockVars, chanCount, site, op, arg, deviceVars, histVars, statusVars, encVars,
                   compVars, deliveredAfter,
                   posesAfterSignal, extVars>>

\* Stop without line 138: the current name is kept.
Stop_KeepsName(c) ==
    /\ pc[c] = "Stop"
    /\ engineMutex = NoThread
    /\ IF ~isRunning
       THEN UNCHANGED <<engineVars, closed>>
       ELSE /\ closed' = closed \cup {stopChan}
            /\ isRunning' = FALSE
            /\ UNCHANGED <<current, stopChan>>
    /\ ret' = [ret EXCEPT ![c] = "nil"]
    /\ pc' = [pc EXCEPT ![c] = IF op[c] = "handleSetFingerPose"
                                  THEN "SetFingerPose" ELSE "idle"]
    /\ stopped' = IF op[c] = "handleSetFingerPose" /\ isRunning
                     THEN [stopped EXCEPT ![c] = stopChan] ELSE stopped
    /\ UNCHANGED <<lockVars, chanCount, site, op, arg, deviceVars, histVars, statusVars, encVars,
                   compVars, deliveredAfter,
                   posesAfterSignal, extVars>>

\* Stop without line 137: the running flag stays set.
Stop_KeepsFlag(c) ==
    /\ pc[c] = "Stop"
    /\ engineMutex = NoThread
    /\ IF ~isRunning
       THEN UNCHANGED <<engineVars, closed>>
       ELSE /\ closed' = closed \cup {stopChan}
            /\ current' = ""
            /\ UNCHANGED <<isRunning, stopChan>>
    /\ ret' = [ret EXCEPT ![c] = "nil"]
    /\ pc' = [pc EXCEPT ![c] = IF op[c] = "handleSetFingerPose"
                                  THEN "SetFingerPose" ELSE "idle"]
    /\ stopped' = IF op[c] = "handleSetFingerPose" /\ isRunning
                     THEN [stopped EXCEPT ![c] = stopChan] ELSE stopped
    /\ UNCHANGED <<lockVars, chanCount, site, op, arg, deviceVars, histVars,
                   statusVars, encVars, compVars, deliveredAfter,
                   posesAfterSignal, extVars>>

\* Stop, lines 126-143, under the engine lock.
Stop(c) ==
    /\ pc[c] = "Stop"
    /\ engineMutex = NoThread
    /\ IF ~isRunning
       THEN UNCHANGED <<engineVars, closed>>
       ELSE /\ closed' = closed \cup {stopChan}
            /\ isRunning' = FALSE
            /\ current' = ""
            /\ stopChan' = stopChan
    /\ ret' = [ret EXCEPT ![c] = "nil"]
    /\ pc' = [pc EXCEPT ![c] = IF op[c] = "handleSetFingerPose"
                                  THEN "SetFingerPose" ELSE "idle"]
    /\ stopped' = IF op[c] = "handleSetFingerPose" /\ isRunning
                     THEN [stopped EXCEPT ![c] = stopChan] ELSE stopped
    /\ UNCHANGED <<lockVars, chanCount, site, op, arg, deviceVars, histVars, statusVars, encVars,
                   compVars, deliveredAfter,
                   posesAfterSignal, extVars>>

\* ------------------------------------------------------------------ tasks
\* The loop without its stop case: the callback is invoked whatever the channel.
runAnimationLoop_NoStopCheck(k) ==
    /\ pc[k] = "loop"
    /\ pc' = [pc EXCEPT ![k] = "Run"]
    /\ UNCHANGED <<engineVars, lockVars, closed, chanCount, site, op, arg, ret,
                   deviceVars, histVars, statusVars, encVars, compVars,
                   orderVars, extVars>>

\* runAnimationLoop, lines 182-187: the select at the top of the loop.  A
\* closed channel is ready, so the stop case is taken; otherwise the default.
runAnimationLoop(k) ==
    /\ pc[k] = "loop"
    /\ pc' = [pc EXCEPT ![k] = IF k \in closed THEN "exit" ELSE "Run"]
    /\ UNCHANGED <<engineVars, lockVars, closed, chanCount, site, op, arg, ret,
                   deviceVars, histVars, statusVars, encVars, compVars,
                   orderVars, extVars>>

\* runAnimationLoop, line 189: anim.Run is invoked.  Both callbacks start by
\* issuing a pose command (wave: SetFingerPose, sway: SetPalmPose), whose
\* setter perturbs the pose, builds the command and calls ExecuteCommand.
Run(k) ==
    /\ pc[k] = "Run"
    /\ pc' = [pc EXCEPT ![k] = "ExecuteCommand"]
    /\ site' = [site EXCEPT ![k] = "Run"]
    /\ UNCHANGED <<engineVars, lockVars, closed, chanCount, op, arg, ret,
                   deviceVars, histVars, statusVars, encVars, compVars,
                   orderVars, extVars>>

\* Exit handling without the comparison of line 217: every task cleans up.
handleLoopExit_NoIdentityCheck(k) ==
    /\ pc[k] = "exit"
    /\ engineMutex = NoThread
    /\ isRunning' = FALSE
    /\ current' = ""
    /\ stopChan' = stopChan
    /\ engineMutex' = k
    /\ pc' = [pc EXCEPT ![k] = "ResetPose"]
    /\ resetSinceStart' = resetSinceStart + 1
    /\ exitAs' = [exitAs EXCEPT ![k] = "owner"]
    /\ UNCHANGED <<registerReaders, hmutex, closed, chanCount, site, op, arg,
                   ret, deviceVars, statusVars, encVars, compVars,
                   orderVars, extVars>>

\* Exit handling without line 219: the owner leaves the running flag set.
handleLoopExit_KeepsFlag(k) ==
    /\ pc[k] = "exit"
    /\ engineMutex = NoThread
    /\ IF k = stopChan
       THEN /\ current' = ""
            /\ UNCHANGED <<isRunning, stopChan>>
            /\ engineMutex' = k
            /\ pc' = [pc EXCEPT ![k] = "ResetPose"]
            /\ resetSinceStart' = resetSinceStart + 1
            /\ exitAs' = [exitAs EXCEPT ![k] = "owner"]
       ELSE /\ pc' = [pc EXCEPT ![k] = "done"]
            /\ exitAs' = [exitAs EXCEPT ![k] = "quiet"]
            /\ UNCHANGED <<engineVars, engineMutex, resetSinceStart>>
    /\ UNCHANGED <<registerReaders, hmutex, closed, chanCount, site, op, arg,
                   ret, deviceVars, statusVars, encVars, compVars, orderVars,
                   extVars>>

\* Exit handling without line 220: the owner leaves the current name set.
handleLoopExit_KeepsName(k) ==
    /\ pc[k] = "exit"
    /\ engineMutex = NoThread
    /\ IF k = stopChan
       THEN /\ isRunning' = FALSE
            /\ UNCHANGED <<current, stopChan>>
            /\ engineMutex' = k
            /\ pc' = [pc EXCEPT ![k] = "ResetPose"]
            /\ resetSinceStart' = resetSinceStart + 1
            /\ exitAs' = [exitAs EXCEPT ![k] = "owner"]
       ELSE /\ pc' = [pc EXCEPT ![k] = "done"]
            /\ exitAs' = [exitAs EXCEPT ![k] = "quiet"]
            /\ UNCHANGED <<engineVars, engineMutex, resetSinceStart>>
    /\ UNCHANGED <<registerReaders, hmutex, closed, chanCount, site, op, arg,
                   ret, deviceVars, statusVars, encVars, compVars, orderVars,
                   extVars>>

\* Exit handling that unlocks before it calls executor.ResetPose().
handleLoopExit_ResetsUnlocked(k) ==
    /\ pc[k] = "exit"
    /\ engineMutex = NoThread
    /\ IF k = stopChan
       THEN /\ isRunning' = FALSE
            /\ current' = ""
            /\ stopChan' = stopChan
            /\ pc' = [pc EXCEPT ![k] = "ResetPose"]
            /\ resetSinceStart' = resetSinceStart + 1
            /\ exitAs' = [exitAs EXCEPT ![k] = "owner"]
       ELSE /\ pc' = [pc EXCEPT ![k] = "done"]
            /\ exitAs' = [exitAs EXCEPT ![k] = "quiet"]
            /\ UNCHANGED <<engineVars, resetSinceStart>>
    /\ UNCHANGED <<lockVars, closed, chanCount, site, op, arg, ret,
                   deviceVars, statusVars, encVars, compVars, orderVars,
                   extVars>>

\* handleLoopExit, lines 208-231, deferred by every task.  The owner keeps the
\* engine lock while it calls executor.ResetPose(); a superseded task only
\* logs and releases the lock.
handleLoopExit(k) ==
    /\ pc[k] = "exit"
    /\ engineMutex = NoThread
    /\ IF k = stopChan
       THEN /\ isRunning' = FALSE
            /\ current' = ""
            /\ stopChan' = stopChan
            /\ engineMutex' = k
            /\ pc' = [pc EXCEPT ![k] = "ResetPose"]
            /\ resetSinceStart' = resetSinceStart + 1
            /\ exitAs' = [exitAs EXCEPT ![k] = "owner"]
       ELSE /\ pc' = [pc EXCEPT ![k] = "done"]
            /\ exitAs' = [exitAs EXCEPT ![k] = "quiet"]
            /\ UNCHANGED <<engineVars, engineMutex, resetSinceStart>>
    /\ UNCHANGED <<registerReaders, hmutex, closed, chanCount, site, op, arg,
                   ret, deviceVars, statusVars, encVars, compVars,
                   orderVars, extVars>>

\* ----------------------------------------------------------------- device
\* ResetPose, lines 172-177: the log line reads the hand type (GetHandType:
\* mutex.RLock, which waits while a writer holds the lock), then the neutral
\* finger pose is set.
ResetPose(t) ==
    /\ pc[t] = "ResetPose"
    /\ hmutex = NoThread
    /\ pc' = [pc EXCEPT ![t] = "ExecuteCommand"]
    /\ site' = [site EXCEPT ![t] = "ResetPose"]
    /\ UNCHANGED <<engineVars, lockVars, closed, chanCount, op, arg, ret,
                   deviceVars, histVars, statusVars, encVars, compVars,
                   orderVars, extVars>>

\* ExecuteCommand that records the not-ready failure in the device status.
ExecuteCommand_CountsNotReady(t) ==
    /\ pc[t] = "ExecuteCommand"
    /\ hmutex = NoThread
    /\ IF ~isConnected \/ ~isActive
       THEN /\ PoseFailed(t)
            /\ hmutex' = hmutex
            /\ errorCount' = errorCount + 1
            /\ lastError' = "DeviceNotReady"
       ELSE /\ hmutex' = t
            /\ pc' = [pc EXCEPT ![t] = "commandToRawMessage"]
            /\ UNCHANGED <<engineMutex, site, ret, errorCount, lastError>>
    /\ UNCHANGED <<engineVars, registerReaders, closed, chanCount, op, arg,
                   deviceVars, histVars, lastUpdate, sendCalls, encVars,
                   compVars, orderVars, extVars>>

\* ExecuteCommand that hands the message over before it tests readiness.
ExecuteCommand_SendsUnready(t) ==
    /\ pc[t] = "ExecuteCommand"
    /\ hmutex = NoThread
    /\ IF ~isConnected \/ ~isActive
       THEN /\ PoseFailed(t)
            /\ hmutex' = hmutex
            /\ sendCalls' = sendCalls + 1
       ELSE /\ hmutex' = t
            /\ pc' = [pc EXCEPT ![t] = "commandToRawMessage"]
            /\ UNCHANGED <<engineMutex, site, ret, sendCalls>>
    /\ UNCHANGED <<engineVars, registerReaders, closed, chanCount, op, arg,
                   deviceVars, histVars, errorCount, lastError, lastUpdate,
                   encVars, compVars, orderVars, extVars>>

\* ExecuteCommand, lines 223-232.  mutex.Lock(); a device that is not ready
\* returns an error (the deferred Unlock runs).  On a ready device the
\* goroutine keeps the write lock and calls commandToRawMessage, whose first
\* statement (line 192) is mutex.RLock(): the read lock is not granted while
\* a writer holds the lock, and the writer is this goroutine, which releases
\* it only when ExecuteCommand returns.  Nothing after line 192 is reached.
ExecuteCommand(t) ==
    /\ pc[t] = "ExecuteCommand"
    /\ hmutex = NoThread
    /\ IF ~isConnected \/ ~isActive
       THEN /\ PoseFailed(t)
            /\ hmutex' = hmutex
       ELSE /\ hmutex' = t
            /\ pc' = [pc EXCEPT ![t] = "commandToRawMessage"]
            /\ UNCHANGED <<engineMutex, site, ret>>
    /\ UNCHANGED <<engineVars, registerReaders, closed, chanCount, op, arg,
                   deviceVars, histVars, statusVars, encVars, compVars,
                   orderVars, extVars>>

\* Connect, lines 309-319, under the write lock.
Connect(c) ==
    /\ pc[c] = "Connect"
    /\ hmutex = NoThread
    /\ isConnected' = TRUE
    /\ isActive' = TRUE
    /\ lastUpdate' = "Connect"
    /\ ret' = [ret EXCEPT ![c] = "nil"]
    /\ pc' = [pc EXCEPT ![c] = "idle"]
    /\ UNCHANGED <<engineVars, lockVars, closed, chanCount, site, op, arg,
                   histVars, errorCount, lastError, sendCalls, encVars,
                   compVars, orderVars, extVars>>

\* Disconnect without line 326: the active flag is left as it is.
Disconnect_KeepsActive(c) ==
    /\ pc[c] = "Disconnect"
    /\ hmutex = NoThread
    /\ isConnected' = FALSE
    /\ isActive' = isActive
    /\ lastUpdate' = "Disconnect"
    /\ ret' = [ret EXCEPT ![c] = "nil"]
    /\ pc' = [pc EXCEPT ![c] = "idle"]
    /\ UNCHANGED <<engineVars, lockVars, closed, chanCount, site, op, arg,
                   histVars, errorCount, lastError, sendCalls, encVars,
                   compVars, orderVars, extVars>>

\* Disconnect, lines 321-330, under the write lock.
Disconnect(c) ==
    /\ pc[c] = "Disconnect"
    /\ hmutex = NoThread
    /\ isConnected' = FALSE
    /\ isActive' = FALSE
    /\ lastUpdate' = "Disconnect"
    /\ ret' = [ret EXCEPT ![c] = "nil"]
    /\ pc' = [pc EXCEPT ![c] = "idle"]
    /\ UNCHANGED <<engineVars, lockVars, closed, chanCount, site, op, arg,
                   histVars, errorCount, lastError, sendCalls, encVars,
                   compVars, orderVars, extVars>>

\* ---------------------------------------------------------------- encoder
\* The values of config["hand_type"] given to the constructor; a missing or
\* non-string entry reads as "" (line 59).
HandTypeConfigs == {"left", "right", "Left", ""}

\* NewL10Hand, lines 59-63: the hand side of a device built from a
\* configuration.  call.type holds the configured string.
NewL10Hand(c) ==
    /\ pc[c] = "idle"
    /\ hmutex = NoThread
    /\ \E handTypeStr \in HandTypeConfigs :
         /\ call' = [fn |-> "NewL10Hand", handType |-> HAND_TYPE_UNKNOWN,
                     type |-> handTypeStr, payload |-> <<>>]
         /\ handType' = IF handTypeStr = "left" THEN HAND_TYPE_LEFT
                         ELSE HAND_TYPE_RIGHT
         /\ result' = NoResult
    /\ UNCHANGED <<engineVars, lockVars, closed, chanCount, pc, site, op, arg,
                   ret, deviceVars, histVars, statusVars, compVars,
                   orderVars, extVars>>

\* SetHandType without the test of lines 109-111.
SetHandType_TakesAny(c) ==
    /\ pc[c] = "idle"
    /\ hmutex = NoThread
    /\ \E h \in HandTypes :
         /\ call' = [fn |-> "SetHandType", handType |-> h, type |-> "",
                     payload |-> <<>>]
         /\ handType' = h
         /\ result' = NoResult
    /\ UNCHANGED <<engineVars, lockVars, closed, chanCount, pc, site, op, arg,
                   ret, deviceVars, histVars, statusVars, compVars,
                   orderVars, extVars>>

\* SetHandType, lines 106-115, under the write lock.
SetHandType(c) ==
    /\ pc[c] = "idle"
    /\ hmutex = NoThread
    /\ \E h \in HandTypes :
         /\ call' = [fn |-> "SetHandType", handType |-> h, type |-> "",
                     payload |-> <<>>]
         /\ IF h # HAND_TYPE_LEFT /\ h # HAND_TYPE_RIGHT
            THEN /\ result' = [NoResult EXCEPT !.err = "InvalidHandType"]
                 /\ handType' = handType
            ELSE /\ handType' = h
                 /\ result' = NoResult
    /\ UNCHANGED <<engineVars, lockVars, closed, chanCount, pc, site, op, arg,
                   ret, deviceVars, histVars, statusVars, compVars,
                   orderVars, extVars>>

\* An encoder that uses the id of the hand side the device was built with.
commandToRawMessage_CachedID(ht, command) ==
    LET data == IF command.type = "SetFingerPose"
                  THEN <<FingerOpcode>> \o command.payload
                  ELSE <<PalmOpcode>> \o command.payload
    IN  IF command.type \notin {"SetFingerPose", "SetPalmPose"}
          THEN [NoResult EXCEPT !.err = "UnsupportedCommand"]
        ELSE IF Len(data) > CanDataLimit
          THEN [NoResult EXCEPT !.err = "PayloadTooLong"]
        ELSE [err |-> "", Interface |-> canInterface, ID |-> HAND_TYPE_RIGHT, Data |-> data]

\* An encoder that puts the opcode after the payload and addresses the
\* message to the default interface.
commandToRawMessage_OpcodeLast(ht, command) ==
    LET data == IF command.type = "SetFingerPose"
                  THEN command.payload \o <<FingerOpcode>>
                  ELSE command.payload \o <<PalmOpcode>>
    IN  IF command.type \notin {"SetFingerPose", "SetPalmPose"}
          THEN [NoResult EXCEPT !.err = "UnsupportedCommand"]
        ELSE IF Len(data) > CanDataLimit
          THEN [NoResult EXCEPT !.err = "PayloadTooLong"]
        ELSE [err |-> "", Interface |-> "can0", ID |-> ht, Data |-> data]

\* An encoder without the length tests of lines 202 and 208.
commandToRawMessage_NoLimit(ht, command) ==
    LET data == IF command.type = "SetFingerPose"
                  THEN <<FingerOpcode>> \o command.payload
                  ELSE <<PalmOpcode>> \o command.payload
    IN  IF command.type \notin {"SetFingerPose", "SetPalmPose"}
          THEN [NoResult EXCEPT !.err = "UnsupportedCommand"]
        ELSE [err |-> "", Interface |-> canInterface, ID |-> ht, Data |-> data]

\* commandToRawMessage, lines 195-219, as a function of the hand side it
\* reads (line 196) and of the command: the switch on cmd.Type(), the
\* opcode prefix, the test len(data) > 8.  An error comes with the zero
\* message.
commandToRawMessage(ht, command) ==
    LET data == IF command.type = "SetFingerPose"
                  THEN <<FingerOpcode>> \o command.payload
                  ELSE <<PalmOpcode>> \o command.payload
    IN  IF command.type \notin {"SetFingerPose", "SetPalmPose"}
          THEN [NoResult EXCEPT !.err = "UnsupportedCommand"]
        ELSE IF Len(data) > CanDataLimit
          THEN [NoResult EXCEPT !.err = "PayloadTooLong"]
        ELSE [err |-> "", Interface |-> canInterface, ID |-> ht, Data |-> data]

\* A call of commandToRawMessage by a goroutine that holds no lock: the read
\* lock of line 192 is free, the message is computed and returned.
EncodeCall(c) ==
    /\ pc[c] = "idle"
    /\ hmutex = NoThread
    /\ \E ty \in CommandTypes, pl \in Payloads :
         /\ call' = [fn |-> "commandToRawMessage",
                     handType |-> HAND_TYPE_UNKNOWN, type |-> ty,
                     payload |-> pl]
         /\ result' = commandToRawMessage(handType, [type |-> ty, payload |-> pl])
    /\ UNCHANGED <<engineVars, lockVars, closed, chanCount, pc, site, op, arg,
                   ret, deviceVars, histVars, statusVars, handType,
                   compVars, orderVars, extVars>>

\* ---------------------------------------------------------------- perturb
\* The bytes given to perturb: those within EdgeWidth of either end of the
\* byte range, where the clamps act, and three in the middle.
PerturbBases ==
    (0..EdgeWidth) \cup ((ByteMax - EdgeWidth)..ByteMax) \cup {64, 128, 192}

\* perturb without the clamps of lines 33-38: byte(v) keeps the low 8 bits.
perturb_Wraps(base, delta, draw) ==
    LET offset == draw - delta
        v == base + offset
    IN  v % (ByteMax + 1)

\* perturb, lines 30-40; draw is the value of rand.IntN(2*delta+1), a number
\* in 0..2*delta.
perturb(base, delta, draw) ==
    LET offset == draw - delta
        v == base + offset
        clamped == IF v < 0 THEN 0 ELSE IF v > ByteMax THEN ByteMax ELSE v
    IN  clamped % (ByteMax + 1)

\* One turn of the loop of a setter (SetFingerPose lines 130-132, SetPalmPose
\* lines 155-157): a pose byte is perturbed with the delta of its channel.
perturbPoseByte(c) ==
    /\ pc[c] = "idle"
    /\ \E ty \in {"SetFingerPose", "SetPalmPose"}, base \in PerturbBases :
         LET delta == IF ty = "SetFingerPose" THEN FingerDelta ELSE PalmDelta
         IN  \E draw \in 0..(2 * delta) :
               /\ call' = [fn |-> "perturb", handType |-> HAND_TYPE_UNKNOWN,
                           type |-> ty, payload |-> <<base>>]
               /\ result' = [NoResult EXCEPT !.Data = <<perturb(base, delta, draw)>>]
    /\ UNCHANGED <<engineVars, lockVars, closed, chanCount, pc, site, op, arg,
                   ret, deviceVars, histVars, statusVars, handType,
                   compVars, orderVars, extVars>>

\* ----------------------------------------------------------- pose setters
\* The values of rand.IntN(2*delta+1) tried in a setter call: the least, the
\* middle (no offset) and the greatest.
PoseDraws(delta) == {0, delta, 2 * delta}

deltaOf(fn) == IF fn = "SetFingerPose" THEN FingerDelta ELSE PalmDelta
lenOf(fn) == IF fn = "SetFingerPose" THEN FingerPoseLen ELSE PalmPoseLen

\* The caller makes the array it will pass (part_007 lines 174-175, part_002
\* lines 89-90).
storePose ==
    /\ setter.pc = "idle"
    /\ \E p \in StoredPoses :
         poses' = [storedPose |-> p, poseBase |-> p, perturbedPose |-> <<>>,
                   setter |-> NoSetter]
    /\ UNCHANGED <<baseVars, legacyVars, mgrVars>>

\* SetFingerPose lines 123-129, SetPalmPose lines 148-154, called with the
\* stored array: a pose of the wrong length is refused; otherwise
\* perturbedPose is made with the length of the pose, zero-filled.
callSetter ==
    /\ DOMAIN poses # {}
    /\ setter.pc = "idle"
    /\ setter.sends < MaxSends
    /\ \E fn \in {"SetFingerPose", "SetPalmPose"} :
         IF Len(storedPose) # lenOf(fn)
         THEN poses' = [poses EXCEPT
                          !.setter.fn = fn,
                          !.setter.err = "InvalidLength",
                          !.perturbedPose = <<>>]
         ELSE poses' = [poses EXCEPT
                          !.setter.fn = fn,
                          !.setter.pc = "range",
                          !.setter.i = 1,
                          !.setter.err = "",
                          !.perturbedPose = [j \in 1..Len(storedPose) |-> 0]]
    /\ UNCHANGED <<baseVars, legacyVars, mgrVars>>

\* A setter loop that writes the perturbed byte into the array it was given.
rangePose_InPlace ==
    /\ setter.pc = "range"
    /\ \E draw \in PoseDraws(deltaOf(setter.fn)) :
         LET written == [storedPose EXCEPT ![setter.i] =
                           perturb(storedPose[setter.i], deltaOf(setter.fn),
                                   draw)]
         IN poses' = [poses EXCEPT
                        !.storedPose = written,
                        !.perturbedPose = written,
                        !.setter.i = @ + 1,
                        !.setter.pc = IF setter.i = Len(storedPose)
                                      THEN "ExecuteCommand" ELSE "range"]
    /\ UNCHANGED <<baseVars, legacyVars, mgrVars>>

\* One turn of `for i, v := range pose` (lines 130-132, 155-157):
\* perturbedPose[i] = perturb(v, delta).
rangePose ==
    /\ setter.pc = "range"
    /\ \E draw \in PoseDraws(deltaOf(setter.fn)) :
         poses' = [poses EXCEPT
                     !.perturbedPose[setter.i] =
                        perturb(storedPose[setter.i], deltaOf(setter.fn),
                                draw),
                     !.setter.i = @ + 1,
                     !.setter.pc = IF setter.i = Len(storedPose)
                                   THEN "ExecuteCommand" ELSE "range"]
    /\ UNCHANGED <<baseVars, legacyVars, mgrVars>>

\* The command is built from perturbedPose and given to ExecuteCommand
\* (lines 135-138, 160-163); the setter returns what ExecuteCommand returns
\* (144, 168).  ExecuteCommand is taken as a call that returns.
setterReturns ==
    /\ setter.pc = "ExecuteCommand"
    /\ \E e \in {"nil", "DeviceNotReady"} :
         poses' = [poses EXCEPT
                     !.setter.pc = "idle",
                     !.setter.err = e,
                     !.setter.sends = @ + 1]
    /\ UNCHANGED <<baseVars, legacyVars, mgrVars>>

\* ---------------------------------------------------------------- factory
\* Model names given to the factory, and the constructors registered under
\* them: the one of the L10 hand (part_003 line 7) and another one.
ModelNames == {"L10", "O7", "L20"}
ConstructorNames == {"NewL10Hand", "NewO7Hand"}

\* RegisterDeviceType, part_000 lines 15-17: the table entry is written,
\* whether or not the name had one.
RegisterDeviceType(c) ==
    /\ pc[c] = "idle"
    /\ \E modelName \in ModelNames, constructor \in ConstructorNames :
         /\ constructors' = [m \in DOMAIN constructors \cup {modelName} |->
                                IF m = modelName THEN constructor
                                ELSE constructors[m]]
         /\ call' = [fn |-> "RegisterDeviceType", handType |-> HAND_TYPE_UNKNOWN,
                     type |-> modelName, payload |-> <<>>]
    /\ result' = NoResult
    /\ UNCHANGED <<engineVars, lockVars, closed, chanCount, pc, site, op, arg,
                   ret, deviceVars, histVars, statusVars, handType, invoked,
                   samplingRate, orderVars, extVars>>

\* CreateDevice that builds an L10 hand when the name is not in the table,
\* and enters it.
CreateDevice_FallsBack(c) ==
    /\ pc[c] = "idle"
    /\ \E modelName \in ModelNames, ok \in BOOLEAN :
         /\ call' = [fn |-> "CreateDevice", handType |-> HAND_TYPE_UNKNOWN,
                     type |-> modelName, payload |-> <<>>]
         /\ constructors' = [m \in DOMAIN constructors \cup {modelName} |->
                                IF m \in DOMAIN constructors THEN constructors[m]
                                ELSE "NewL10Hand"]
         /\ invoked' = constructors'[modelName]
         /\ result' = [NoResult EXCEPT !.err = IF ok THEN "" ELSE "ConfigurationError"]
    /\ UNCHANGED <<engineVars, lockVars, closed, chanCount, pc, site, op, arg,
                   ret, deviceVars, histVars, statusVars, handType, samplingRate,
                   orderVars, extVars>>

\* CreateDevice, part_000 lines 20-26: the table is read; a name without an
\* entry is an error, otherwise the constructor found is invoked and what it
\* returns (a device, or the error of a configuration it refuses) is
\* returned.
CreateDevice(c) ==
    /\ pc[c] = "idle"
    /\ \E modelName \in ModelNames, ok \in BOOLEAN :
         /\ call' = [fn |-> "CreateDevice", handType |-> HAND_TYPE_UNKNOWN,
                     type |-> modelName, payload |-> <<>>]
         /\ IF modelName \notin DOMAIN constructors
            THEN /\ invoked' = ""
                 /\ result' = [NoResult EXCEPT !.err = "UnknownModel"]
            ELSE /\ invoked' = constructors[modelName]
                 /\ result' = [NoResult EXCEPT
                                  !.err = IF ok THEN "" ELSE "ConfigurationError"]
    /\ UNCHANGED <<engineVars, lockVars, closed, chanCount, pc, site, op, arg,
                   ret, deviceVars, histVars, statusVars, handType,
                   constructors, samplingRate, orderVars, extVars>>

\* ----------------------------------------------------------------- sensor
\* The rates given to SetSamplingRate: those around 0 and around the largest
\* rate, where the test of line 73 changes its answer, and the default.
RateInputs ==
    ((0 - RateEdge)..RateEdge)
        \cup ((MaxSamplingRate - RateEdge)..(MaxSamplingRate + RateEdge))
        \cup {DefaultSamplingRate}

\* SetSamplingRate that refuses only negative rates.
SetSamplingRate_TakesZero(c) ==
    /\ pc[c] = "idle"
    /\ \E rate \in RateInputs :
         /\ call' = [fn |-> "SetSamplingRate", handType |-> HAND_TYPE_UNKNOWN,
                     type |-> "", payload |-> <<rate>>]
         /\ IF rate < 0 \/ rate > MaxSamplingRate
            THEN /\ result' = [NoResult EXCEPT !.err = "InvalidSamplingRate"]
                 /\ samplingRate' = samplingRate
            ELSE /\ samplingRate' = rate
                 /\ result' = NoResult
    /\ UNCHANGED <<engineVars, lockVars, closed, chanCount, pc, site, op, arg,
                   ret, deviceVars, histVars, statusVars, handType,
                   constructors, invoked, orderVars, extVars>>

\* SetSamplingRate, part_006 lines 72-78.
SetSamplingRate(c) ==
    /\ pc[c] = "idle"
    /\ \E rate \in RateInputs :
         /\ call' = [fn |-> "SetSamplingRate", handType |-> HAND_TYPE_UNKNOWN,
                     type |-> "", payload |-> <<rate>>]
         /\ IF rate <= 0 \/ rate > MaxSamplingRate
            THEN /\ result' = [NoResult EXCEPT !.err = "InvalidSamplingRate"]
                 /\ samplingRate' = samplingRate
            ELSE /\ samplingRate' = rate
                 /\ result' = NoResult
    /\ UNCHANGED <<engineVars, lockVars, closed, chanCount, pc, site, op, arg,
                   ret, deviceVars, histVars, statusVars, handType,
                   constructors, invoked, orderVars, extVars>>

\* GetSamplingRate, part_006 lines 68-70.
GetSamplingRate(c) ==
    /\ pc[c] = "idle"
    /\ call' = [fn |-> "GetSamplingRate", handType |-> HAND_TYPE_UNKNOWN,
                type |-> "", payload |-> <<>>]
    /\ result' = [NoResult EXCEPT !.Data = <<samplingRate>>]
    /\ UNCHANGED <<engineVars, lockVars, closed, chanCount, pc, site, op, arg,
                   ret, deviceVars, histVars, statusVars, handType, compVars,
                   orderVars, extVars>>

\* ------------------------------------- the engine over any PoseExecutor
\* The engine and the run-callbacks are written against the PoseExecutor
\* interface (lines 6-20).  The actions below, with the engine and task
\* actions above, describe them over an executor whose calls return, with
\* success or with an error; the calls of the L10 hand are the actions
\* ExecuteCommand above.
\*
\* An API goroutine calls Stop, or Start with a registered name (a Start
\* with another name launches no task).
InvokeEngine(c) ==
    /\ pc[c] = "idle"
    /\ ret' = [ret EXCEPT ![c] = ""]
    /\ stopped' = [stopped EXCEPT ![c] = 0]
    /\ deliveredAfter' = [deliveredAfter EXCEPT ![c] = NoThread]
    /\ \E o \in {"Start", "Stop"} :
         /\ op' = [op EXCEPT ![c] = o]
         /\ pc' = [pc EXCEPT ![c] = o]
         /\ IF o = "Start"
           THEN /\ chanCount + PendingStarts < MaxRuns
                /\ \E n \in animations : arg' = [arg EXCEPT ![c] = n]
           ELSE arg' = arg
    /\ UNCHANGED <<engineVars, lockVars, closed, chanCount, site, deviceVars,
                   histVars, statusVars, encVars, compVars, posesAfterSignal,
                   extVars>>

\* An API goroutine serves a finger-pose request (handleSetFingerPose,
\* pose_handlers.go lines 11-73) with a valid body for a device that exists:
\* the handler reaches line 46.
handleSetFingerPose(c) ==
    /\ pc[c] = "idle"
    /\ op' = [op EXCEPT ![c] = "handleSetFingerPose"]
    /\ pc' = [pc EXCEPT ![c] = "IsRunning"]
    /\ ret' = [ret EXCEPT ![c] = ""]
    /\ stopped' = [stopped EXCEPT ![c] = 0]
    /\ deliveredAfter' = [deliveredAfter EXCEPT ![c] = NoThread]
    /\ UNCHANGED <<engineVars, lockVars, closed, chanCount, site, arg,
                   deviceVars, histVars, statusVars, encVars, compVars,
                   posesAfterSignal, extVars>>

\* handleSetFingerPose, line 46: IsRunning (pose_executor.go lines 146-150)
\* reads the flag under the engine lock; Stop is called when it is set
\* (line 47), and SetFingerPose follows (line 57).
IsRunning(c) ==
    /\ pc[c] = "IsRunning"
    /\ engineMutex = NoThread
    /\ pc' = [pc EXCEPT ![c] = IF isRunning THEN "Stop" ELSE "SetFingerPose"]
    /\ UNCHANGED <<engineVars, lockVars, closed, chanCount, site, op, arg, ret,
                   deviceVars, histVars, statusVars, encVars, compVars,
                   orderVars, extVars>>

\* handleSetFingerPose, line 57: the requested pose is given to the
\* executor's SetFingerPose.
SetFingerPose(c) ==
    /\ pc[c] = "SetFingerPose"
    /\ pc' = [pc EXCEPT ![c] = "ExecuteCommand"]
    /\ site' = [site EXCEPT ![c] = "api"]
    /\ ret' = [ret EXCEPT ![c] = ""]
    /\ UNCHANGED <<engineVars, lockVars, closed, chanCount, op, arg,
                   deviceVars, histVars, statusVars, encVars, compVars,
                   orderVars, extVars>>

\* A call of the executor (SetFingerPose / SetPalmPose from the callback,
\* ResetPose from the exit handling, SetFingerPose from the request handler)
\* returns; with nil the executor has taken the pose.  nil to the callback:
\* the callback goes on to its select (part_002 lines 43, 67, 104, 117); nil
\* to the exit handling: it logs, releases the engine lock and the task
\* ends; nil to the handler: the request is answered.
executorReturns(t) ==
    /\ pc[t] = "ExecuteCommand"
    /\ posesAfterSignal' = IF site[t] = "Run" /\ t \in closed
                             THEN [posesAfterSignal EXCEPT ![t] = @ + 1]
                             ELSE posesAfterSignal
    /\ \E ok \in BOOLEAN :
         IF ~ok
         THEN /\ PoseFailed(t)
              /\ deliveredAfter' = deliveredAfter
         ELSE /\ deliveredAfter' =
                    [c \in Callers |->
                        IF op[c] = "handleSetFingerPose" /\ pc[c] = "idle"
                               /\ ret[c] = "nil"
                        THEN t ELSE deliveredAfter[c]]
              /\ IF site[t] = "Run"
                 THEN /\ pc' = [pc EXCEPT ![t] = "select"]
                      /\ UNCHANGED <<site, engineMutex, ret>>
                 ELSE IF site[t] = "ResetPose"
                 THEN /\ pc' = [pc EXCEPT ![t] = "done"]
                      /\ site' = [site EXCEPT ![t] = ""]
                      /\ engineMutex' = NoThread
                      /\ ret' = ret
                 ELSE /\ pc' = [pc EXCEPT ![t] = "idle"]
                      /\ site' = [site EXCEPT ![t] = ""]
                      /\ ret' = [ret EXCEPT ![t] = "nil"]
                      /\ engineMutex' = engineMutex
    /\ UNCHANGED <<engineVars, registerReaders, hmutex, closed, chanCount, op,
                   arg, deviceVars, histVars, statusVars, encVars,
                   compVars, stopped, extVars>>

\* A select whose timer may be taken although the stop channel was closed
\* when the select was entered.
enterSelect_TimerReady(k) ==
    /\ pc[k] = "select"
    /\ pc' = [pc EXCEPT ![k] = "delay"]
    /\ UNCHANGED <<engineVars, lockVars, closed, chanCount, site, op, arg, ret,
                   deviceVars, histVars, statusVars, encVars, compVars,
                   orderVars, extVars>>

\* The select of the callback is entered (part_002 lines 43, 67, 104, 117).
\* time.After(delay) makes its timer here, and delay is at least 1 ms
\* (Start, pose_executor.go lines 113-116), so the timer has not fired when
\* the cases are polled: with the stop channel closed the stop case is the
\* only ready one and the callback returns nil; otherwise the goroutine
\* waits for the first of the two.
enterSelect(k) ==
    /\ pc[k] = "select"
    /\ pc' = [pc EXCEPT ![k] = IF k \in closed THEN "recheck" ELSE "delay"]
    /\ site' = [site EXCEPT ![k] = IF k \in closed THEN "" ELSE site[k]]
    /\ UNCHANGED <<engineVars, lockVars, closed, chanCount, op, arg, ret,
                   deviceVars, histVars, statusVars, encVars, compVars,
                   orderVars, extVars>>

\* A wait that does not listen to the stop channel (time.Sleep(delay)).
stopCase_Uncancellable(k) ==
    /\ pc[k] = "delay"
    /\ k \in closed
    /\ UNCHANGED vars

\* The waiting select of the callback, case <-stop: the channel has been
\* closed, the callback returns nil (part_002 lines 44-45, 68-69, 105-106,
\* 118-119) and the loop makes its second check.
stopCase(k) ==
    /\ pc[k] = "delay"
    /\ k \in closed
    /\ pc' = [pc EXCEPT ![k] = "recheck"]
    /\ site' = [site EXCEPT ![k] = ""]
    /\ UNCHANGED <<engineVars, lockVars, closed, chanCount, op, arg, ret,
                   deviceVars, histVars, statusVars, encVars, compVars,
                   orderVars, extVars>>

\* The waiting select of the callback, case <-time.After(delay): the delay
\* has elapsed (the channel may have been closed since; the goroutine was
\* woken by the timer); the callback issues its next pose command or,
\* after the last step of the cycle, returns nil.
timerCase(k) ==
    /\ pc[k] = "delay"
    /\ \E more \in BOOLEAN :
         /\ pc' = [pc EXCEPT ![k] = IF more THEN "ExecuteCommand" ELSE "recheck"]
         /\ site' = [site EXCEPT ![k] = IF more THEN "Run" ELSE ""]
    /\ UNCHANGED <<engineVars, lockVars, closed, chanCount, op, arg, ret,
                   deviceVars, histVars, statusVars, encVars, compVars,
                   orderVars, extVars>>

\* runAnimationLoop, lines 195-203: the second select, after the callback
\* returned nil.
recheck(k) ==
    /\ pc[k] = "recheck"
    /\ pc' = [pc EXCEPT ![k] = IF k \in closed THEN "exit" ELSE "loop"]
    /\ UNCHANGED <<engineVars, lockVars, closed, chanCount, site, op, arg, ret,
                   deviceVars, histVars, statusVars, encVars, compVars,
                   orderVars, extVars>>

\* ------------------------------------------------- legacy animation code
\* The wave goroutine sends WaveSteps poses per pass of its loop (two loops
\* over fingerOrder, lines 84 and 111), the sway goroutine SwaySteps (lines
\* 197 and 213); the stop channel is polled with a default case only at the
\* top of a pass (lines 78 and 191).
StepsOf(kind) == IF kind = "wave" THEN WaveSteps ELSE SwaySteps

LegacyRunning(k) == legacyPc[k] \in {"select", "SendPose", "wait"}

\* Lines 33-35 and 148-150: an empty name means the default interface.
ifNameOf(ifName) == IF ifName = "" THEN DefaultInterface ELSE ifName

\* The goroutines that are running on channel ch: the ones a signal sent to
\* ch is addressed to.
ListenersOf(ch) ==
    {k \in LegacyTasks : LegacyRunning(k) /\ currentStopChannel[k] = ch}

\* initAnimation, lines 16-24: the two maps are made, with the flag false and
\* a channel for every configured interface.
initAnimation ==
    /\ DOMAIN legacy = {}
    /\ legacy' = [AnimationActive |-> [i \in AvailableInterfaces |-> FALSE],
                  StopAnimationMap |-> [i \in AvailableInterfaces |-> 0],
                  stopBuffer |-> {},
                  stopSent |-> {},
                  tasks |-> <<>>]
    /\ UNCHANGED <<baseVars, mgrVars, poseVars>>

\* StartWaveAnimation, lines 27-139, and StartSwayAnimation, lines 142-228,
\* up to the launch of the goroutine: under AnimationMutex, when the flag is
\* set, a signal is sent to the stored channel unless its buffer is full and
\* a new channel is stored (46-55, 160-169); the flag is set (57, 171); the
\* stored channel is captured (60, 174) and the goroutine launched (62, 176).
\* An interface that is not configured returns at once (38-41, 153-156).
StartLegacyAnimation(kind, name) ==
    LET ifName == ifNameOf(name) IN
    /\ DOMAIN legacy # {}
    /\ \E k \in LegacyTasks :
         /\ k = Len(animation.tasks) + 1
         /\ IF ifName \notin AvailableInterfaces
            THEN UNCHANGED legacy
            ELSE LET old == StopAnimationMap[ifName]
                     new == IF AnimationActive[ifName] THEN old + 1 ELSE old
                     buf == IF AnimationActive[ifName]
                            THEN stopBuffer \cup {old} ELSE stopBuffer
                     sent == (IF AnimationActive[ifName]
                              THEN stopSent \cup ListenersOf(old)
                              ELSE stopSent)
                             \cup (IF new \in buf THEN {k} ELSE {})
                 IN legacy' = [legacy EXCEPT
                                 !.stopBuffer = buf,
                                 !.StopAnimationMap[ifName] = new,
                                 !.AnimationActive[ifName] = TRUE,
                                 !.stopSent = sent,
                                 !.tasks = Append(@,
                                    [pc |-> "select",
                                     currentStopChannel |-> new,
                                     kind |-> kind, step |-> 0])]
    /\ UNCHANGED <<baseVars, mgrVars, poseVars>>

StartWaveAnimation == \E name \in InterfaceNames :
    StartLegacyAnimation("wave", name)

StartSwayAnimation == \E name \in InterfaceNames :
    StartLegacyAnimation("sway", name)

\* The select with a default case at the top of the goroutine's loop, lines
\* 78-82 and 191-195: a buffered signal is received and the goroutine
\* returns; otherwise a pass begins.
legacySelect(k) ==
    /\ legacyPc[k] = "select"
    /\ IF currentStopChannel[k] \in stopBuffer
       THEN legacy' = [legacy EXCEPT
                         !.stopBuffer = @ \ {currentStopChannel[k]},
                         !.tasks[k].pc = "defer"]
       ELSE legacy' = [legacy EXCEPT !.tasks[k].pc = "SendPose"]
    /\ UNCHANGED <<baseVars, mgrVars, poseVars>>

\* SendFingerPose (lines 94, 121) or SendPalmPose (197, 213): an error ends
\* the goroutine.
legacySendPose(k) ==
    /\ legacyPc[k] = "SendPose"
    /\ \E ok \in BOOLEAN :
         legacy' = [legacy EXCEPT
                      !.tasks[k].pc = IF ok THEN "wait" ELSE "defer"]
    /\ UNCHANGED <<baseVars, mgrVars, poseVars>>

\* The select after a pose, stop case (lines 102-104, 129-131, 205-207,
\* 219-221).
legacyStopCase(k) ==
    /\ legacyPc[k] = "wait"
    /\ currentStopChannel[k] \in stopBuffer
    /\ legacy' = [legacy EXCEPT
                    !.stopBuffer = @ \ {currentStopChannel[k]},
                    !.tasks[k].pc = "defer"]
    /\ UNCHANGED <<baseVars, mgrVars, poseVars>>

\* The select after a pose, timer case (lines 105, 132, 208, 222): the next
\* pose of the pass, or the top of the loop after the last one.
legacyTimerCase(k) ==
    LET next == (legacyStep[k] + 1) % StepsOf(legacyKind[k]) IN
    /\ legacyPc[k] = "wait"
    /\ legacy' = [legacy EXCEPT
                    !.tasks[k].step = next,
                    !.tasks[k].pc = IF next = 0 THEN "select" ELSE "SendPose"]
    /\ UNCHANGED <<baseVars, mgrVars, poseVars>>

\* The goroutine's deferred function, lines 63-68 and 177-182: the flag of
\* its interface is cleared under AnimationMutex.
legacyDeferred(k) ==
    /\ legacyPc[k] = "defer"
    /\ legacy' = [legacy EXCEPT
                    !.AnimationActive[DefaultInterface] = FALSE,
                    !.tasks[k].pc = "done"]
    /\ UNCHANGED <<baseVars, mgrVars, poseVars>>

\* StopAllAnimations, lines 231-268, for one interface (an empty name means
\* every configured interface, 233-238): when the flag is set a signal is
\* sent to the stored channel, or, when its buffer is full, to a new channel
\* that replaces it (250-257), and the flag is cleared (259).  With the flag
\* clear, or for an interface that is not configured, it only logs.
StopAllAnimations ==
    /\ DOMAIN legacy # {}
    /\ \E name \in InterfaceNames :
         LET ifName == ifNameOf(name)
         IN /\ ifName \in AvailableInterfaces
            /\ AnimationActive[ifName]
            /\ LET old == StopAnimationMap[ifName]
                   full == old \in stopBuffer
                   ch == IF full THEN old + 1 ELSE old
               IN legacy' = [legacy EXCEPT
                               !.StopAnimationMap[ifName] = ch,
                               !.stopBuffer = @ \cup {ch},
                               !.stopSent = @ \cup ListenersOf(ch),
                               !.AnimationActive[ifName] = FALSE]
    /\ UNCHANGED <<baseVars, mgrVars, poseVars>>

\* ---------------------------------------------------------- device manager
\* src/unnamed/part_004.  The device a caller registers is the one it made:
\* dev.GetID() is the id of the call, and the caller's number tells the
\* instances apart.  NewDeviceManager, line 14: an empty map.
NewDeviceManager ==
    /\ DOMAIN manager = {}
    /\ manager' = [devices |-> <<>>,
                   managerMutex |-> NoThread,
                   managerReaders |-> {},
                   calls |-> <<>>,
                   registered |-> [i \in DeviceIds |-> {}]]
    /\ UNCHANGED <<baseVars, legacyVars, poseVars>>

\* A goroutine calls one of the manager's operations.
callManager(c) ==
    /\ DOMAIN manager # {}
    /\ mgrPc[c] = "idle"
    /\ \E o \in ManagerOps, i \in DeviceIds :
         manager' = [manager EXCEPT
                       !.calls = [d \in DOMAIN @ \cup {c} |->
                                    IF d = c
                                    THEN [pc |-> "Lock", op |-> o, id |-> i,
                                          exists |-> FALSE, err |-> "",
                                          dev |-> 0]
                                    ELSE @[d]]]
    /\ UNCHANGED <<baseVars, legacyVars, poseVars>>

\* The manager without its mutex: lines 17, 30 and 54 left out.
managerLock_NoLock(c) ==
    /\ mgrPc[c] = "Lock"
    /\ manager' = [manager EXCEPT !.calls[c].pc = "exists"]
    /\ UNCHANGED <<baseVars, legacyVars, poseVars>>

\* m.mutex.Lock() (lines 17, 54) or m.mutex.RLock() (line 30).
managerLock(c) ==
    /\ mgrPc[c] = "Lock"
    /\ managerMutex = NoThread
    /\ IF mgrCall[c].op = "GetDevice"
       THEN manager' = [manager EXCEPT
                          !.managerReaders = @ \cup {c},
                          !.calls[c].pc = "exists"]
       ELSE /\ managerReaders = {}
            /\ manager' = [manager EXCEPT
                             !.managerMutex = c,
                             !.calls[c].pc = "exists"]
    /\ UNCHANGED <<baseVars, legacyVars, poseVars>>

\* `_, exists := m.devices[id]`, lines 21, 33 and 57.
exists(c) ==
    /\ mgrPc[c] = "exists"
    /\ manager' = [manager EXCEPT
                     !.calls[c].exists = mgrCall[c].id \in DOMAIN devices,
                     !.calls[c].pc = mgrCall[c].op]
    /\ UNCHANGED <<baseVars, legacyVars, poseVars>>

\* RegisterDevice, lines 21-26, and the deferred Unlock.
RegisterDevice(c) ==
    LET id == mgrCall[c].id IN
    /\ mgrPc[c] = "RegisterDevice"
    /\ IF mgrCall[c].exists
       THEN manager' = [manager EXCEPT
                          !.calls[c].err = "AlreadyExists",
                          !.managerMutex = NoThread,
                          !.calls[c].pc = "idle"]
       ELSE manager' = [manager EXCEPT
                          !.devices = [i \in DOMAIN devices \cup {id} |->
                                         IF i = id THEN c ELSE devices[i]],
                          !.calls[c].err = "nil",
                          !.registered[id] = @ \cup {c},
                          !.managerMutex = NoThread,
                          !.calls[c].pc = "idle"]
    /\ UNCHANGED <<baseVars, legacyVars, poseVars>>

\* GetDevice, lines 33-38, and the deferred RUnlock.
GetDevice(c) ==
    LET id == mgrCall[c].id IN
    /\ mgrPc[c] = "GetDevice"
    /\ manager' = [manager EXCEPT
                     !.calls[c].err = IF mgrCall[c].exists THEN "nil"
                                        ELSE "NotFound",
                     !.calls[c].dev = IF mgrCall[c].exists THEN devices[id]
                                        ELSE 0,
                     !.managerReaders = @ \ {c},
                     !.calls[c].pc = "idle"]
    /\ UNCHANGED <<baseVars, legacyVars, poseVars>>

\* RemoveDevice, lines 57-62, and the deferred Unlock.
RemoveDevice(c) ==
    LET id == mgrCall[c].id IN
    /\ mgrPc[c] = "RemoveDevice"
    /\ IF mgrCall[c].exists
       THEN manager' = [manager EXCEPT
                          !.devices = [i \in DOMAIN devices \ {id} |->
                                         devices[i]],
                          !.calls[c].err = "nil",
                          !.registered[id] = {},
                          !.managerMutex = NoThread,
                          !.calls[c].pc = "idle"]
       ELSE manager' = [manager EXCEPT
                          !.calls[c].err = "NotFound",
                          !.managerMutex = NoThread,
                          !.calls[c].pc = "idle"]
    /\ UNCHANGED <<baseVars, legacyVars, poseVars>>

\* ------------------------------------------------------------------- Next
Next ==
    \/ \E c \in Callers : Invoke(c)
    \/ \E c \in Callers : StartLock(c)
    \/ \E c \in Callers : getAnimation(c)
    \/ \E c \in Callers : Start(c)
    \/ \E c \in Callers : Stop(c)
    \/ \E c \in Callers : Connect(c)
    \/ \E c \in Callers : Disconnect(c)
    \/ \E k \in Tasks : runAnimationLoop(k)
    \/ \E k \in Tasks : Run(k)
    \/ \E k \in Tasks : handleLoopExit(k)
    \/ \E t \in Threads : ResetPose(t)
    \/ \E t \in Threads : ExecuteCommand(t)

Spec == Init /\ [][Next]_vars

\* The encoder on its own: calls of SetHandType and of commandToRawMessage
\* on the device as NewL10Hand leaves it.
EncoderNext ==
    \/ \E c \in Callers : SetHandType(c)
    \/ \E c \in Callers : EncodeCall(c)

EncoderSpec == Init /\ [][EncoderNext]_vars

\* The hand side of a device: built from a configuration, changed by
\* SetHandType, read by the encoder.
HandTypeNext ==
    \/ \E c \in Callers : NewL10Hand(c)
    \/ \E c \in Callers : SetHandType(c)
    \/ \E c \in Callers : EncodeCall(c)

HandTypeSpec == Init /\ [][HandTypeNext]_vars

\* The perturbation on its own: the setters perturb one pose byte after
\* another.
PerturbNext == \E c \in Callers : perturbPoseByte(c)

PerturbSpec == Init /\ [][PerturbNext]_vars

\* The factory on its own: registrations and creations, one call at a time.
FactoryNext ==
    \/ \E c \in Callers : RegisterDeviceType(c)
    \/ \E c \in Callers : CreateDevice(c)

FactorySpec == Init /\ [][FactoryNext]_vars

\* A pressure sensor on its own, as NewPressureSensor leaves it.
SensorNext ==
    \/ \E c \in Callers : SetSamplingRate(c)
    \/ \E c \in Callers : GetSamplingRate(c)

SensorSpec == Init /\ [][SensorNext]_vars

\* The legacy per-interface animation code on its own.
LegacyNext ==
    \/ initAnimation
    \/ StartWaveAnimation
    \/ StartSwayAnimation
    \/ StopAllAnimations
    \/ \E k \in LegacyTasks : legacySelect(k)
    \/ \E k \in LegacyTasks : legacySendPose(k)
    \/ \E k \in LegacyTasks : legacyStopCase(k)
    \/ \E k \in LegacyTasks : legacyTimerCase(k)
    \/ \E k \in LegacyTasks : legacyDeferred(k)

LegacySpec == Init /\ [][LegacyNext]_vars

\* The device manager on its own, called from several goroutines.
ManagerNext ==
    \/ NewDeviceManager
    \/ \E c \in ManagerCallers : callManager(c)
    \/ \E c \in ManagerCallers : managerLock(c)
    \/ \E c \in ManagerCallers : exists(c)
    \/ \E c \in ManagerCallers : RegisterDevice(c)
    \/ \E c \in ManagerCallers : GetDevice(c)
    \/ \E c \in ManagerCallers : RemoveDevice(c)

ManagerSpec == Init /\ [][ManagerNext]_vars

\* The pose setters on their own: a caller keeps a pose array and passes it
\* to a setter again and again.
PoseNext ==
    \/ storePose
    \/ callSetter
    \/ rangePose
    \/ setterReturns

PoseSpec == Init /\ [][PoseNext]_vars

ExecNext ==
    \/ \E c \in Callers : InvokeEngine(c)
    \/ \E c \in Callers : StartLock(c)
    \/ \E c \in Callers : getAnimation(c)
    \/ \E c \in Callers : Start(c)
    \/ \E c \in Callers : Stop(c)
    \/ \E k \in Tasks : runAnimationLoop(k)
    \/ \E k \in Tasks : Run(k)
    \/ \E k \in Tasks : handleLoopExit(k)
    \/ \E k \in Tasks : ResetPose(k)
    \/ \E k \in Tasks : executorReturns(k)
    \/ \E k \in Tasks : enterSelect(k)
    \/ \E k \in Tasks : stopCase(k)
    \/ \E k \in Tasks : timerCase(k)
    \/ \E k \in Tasks : recheck(k)

ExecSpec == Init /\ [][ExecNext]_vars

\* The engine over such an executor together with the handler of
\* finger-pose requests.
HandlerNext ==
    \/ ExecNext
    \/ \E c \in Callers : handleSetFingerPose(c)
    \/ \E c \in Callers : IsRunning(c)
    \/ \E c \in Callers : SetFingerPose(c)
    \/ \E c \in Callers : executorReturns(c)

HandlerSpec == Init /\ [][HandlerNext]_vars

\* One step of task t over an executor whose calls return.  The timer of a
\* delay is not part of it: a delay may be as long as one likes.
ExecStep(t) ==
    \/ runAnimationLoop(t)
    \/ Run(t)
    \/ executorReturns(t)
    \/ enterSelect(t)
    \/ recheck(t)
    \/ handleLoopExit(t)
    \/ ResetPose(t)

\* Every task that stays runnable runs, and a select whose stop case is
\* ready again and again takes it (Go chooses among ready cases at random).
\* Nothing is assumed about the API goroutines or about who gets a contended
\* lock.
FairExecSpec ==
    /\ ExecSpec
    /\ \A k \in Tasks : WF_vars(ExecStep(k))
    /\ \A k \in Tasks : SF_vars(stopCase(k))

\* One step of goroutine t inside an operation it has entered.  Whether and
\* when an API goroutine enters its next operation (Invoke) is up to the
\* client and is not part of it.
Step(t) ==
    \/ /\ t \in Callers
       /\ StartLock(t) \/ getAnimation(t) \/ Start(t) \/ Stop(t)
             \/ Connect(t) \/ Disconnect(t)
    \/ /\ t \in Tasks
       /\ runAnimationLoop(t) \/ Run(t) \/ handleLoopExit(t)
    \/ ResetPose(t)
    \/ ExecuteCommand(t)

\* The Go scheduler runs every runnable goroutine, and sync.Mutex hands a
\* lock that is released again and again to a goroutine that keeps waiting
\* for it (starvation mode), so a goroutine whose step is enabled infinitely
\* often takes it.
FairSpec == Spec /\ \A t \in Threads : SF_vars(Step(t))

\* ----------------------------------------------------------------- claims
\* A task that has been launched and has not finished its exit handling.
Alive(k) == pc[k] \notin {"unborn", "done"}

\* C1: when a newer Start has taken ownership (a channel newer than the
\* task's own has been made), the task's exit handling finds its channel
\* different from the engine's, leaves running flag, current name and stored
\* channel alone, calls no ResetPose and ends the task.
SupersededExitIsQuiet ==
    [][\A k \in Tasks :
         (pc[k] = "exit" /\ pc'[k] # "exit" /\ chanCount > k)
         => /\ stopChan # k
            /\ UNCHANGED <<isRunning, current, stopChan, resetSinceStart>>
            /\ engineMutex' = NoThread
            /\ pc'[k] = "done"]_vars

\* C1 witness: a superseded task has run its exit handling while the newer
\* animation is still the running one.
SupersededTaskExited ==
    \E k \in Tasks : exitAs[k] = "quiet" /\ isRunning /\ stopChan > k

\* C2: once the last started animation has terminated (Stop cleared the
\* running flag, or its task ended by itself), the engine calls ResetPose on
\* the executor, and the count of such calls since that Start is one, unless
\* a newer Start comes first.
TerminationLeadsToOneReset ==
    \A k \in Tasks :
        (chanCount = k /\ ~isRunning)
            ~> (resetSinceStart = 1 \/ chanCount # k)

\* C2, the part about "not two": the engine has called ResetPose once since
\* the last Start if the task of that Start has run its exit handling, and
\* not at all before; exits of superseded tasks add nothing.
ResetNeverTwice ==
    resetSinceStart =
        IF chanCount > 0 /\ exitAs[chanCount] # "none" THEN 1 ELSE 0

\* C2: a stopped animation on a ready device whose task is inside a pose
\* command of its run-callback, with no ResetPose made.
StoppedTaskInsidePoseCommand ==
    \E k \in Tasks :
        /\ chanCount = k
        /\ k \in closed
        /\ ~isRunning
        /\ resetSinceStart = 0
        /\ site[k] = "Run"
        /\ pc[k] = "commandToRawMessage"

\* C2 on a device that is not ready: the last animation superseded an
\* earlier one, was stopped, has terminated with one ResetPose, and the
\* earlier task has yet to exit.
ResetOnceWhileOlderTaskAlive ==
    /\ chanCount >= 2
    /\ chanCount \in closed
    /\ pc[chanCount] = "done"
    /\ resetSinceStart = 1
    /\ \E k \in 1..(chanCount - 1) : Alive(k)

\* C3: no two live tasks hold a channel that has not been signalled, and the
\* engine records one animation name or none.
AtMostOneActive ==
    /\ Cardinality({k \in Tasks : Alive(k) /\ k \notin closed}) <= 1
    /\ current \in animations \cup {""}

\* C3 witness: two tasks are alive at once, the older one signalled.
TwoTasksAlive ==
    \E j, k \in Tasks : j < k /\ Alive(j) /\ Alive(k) /\ k \notin closed

\* C4 as stated: after a newer Start has returned, the older task invokes
\* no run-callback (and so issues no pose command).
OnlyNewCallbackRuns ==
    [][\A k \in Tasks :
         (pc[k] = "Run" /\ pc'[k] = "ExecuteCommand") => chanCount = k]_vars

\* C4 amended: a task goes on to invoke its run-callback only from a
\* cancellation check at which its channel was not signalled; a check made
\* after the signal ends the loop.
NoRunAfterObservedSignal ==
    [][\A k \in Tasks :
         (pc[k] = "loop" /\ pc'[k] # "loop")
         => pc'[k] = (IF k \in closed THEN "exit" ELSE "Run")]_vars

\* C4 witness: a superseded, signalled task that passed its check before the
\* signal is about to invoke its run-callback.
SupersededTaskAboutToRun ==
    \E k \in Tasks : chanCount > k /\ k \in closed /\ pc[k] = "Run"

\* C5: a call of ExecuteCommand on a ready device does not block forever: no
\* goroutine inside ExecuteCommand waits for the device lock while it is
\* itself the writer that holds it.
ExecuteCommandReturns ==
    \A t \in Threads : ~(pc[t] = "commandToRawMessage" /\ hmutex = t)

\* C6: locks are held for brief state changes only: the engine lock is not
\* held by a goroutine that is inside the executor's ResetPose (a device
\* lock wait, two pose commands and a 20 ms sleep).
LocksHeldBriefly ==
    \A t \in Threads :
        engineMutex = t => pc[t] \notin {"ResetPose", "ExecuteCommand",
                                         "commandToRawMessage"}

\* C7: Start and Stop never wait for a task: a caller at the engine lock of
\* Start or Stop is never kept out by a task that is in its exit handling.
StartStopNeverWait ==
    \A c \in Callers : pc[c] \in {"Start", "Stop"} => engineMutex \notin Tasks

\* C8: no goroutine holds the engine lock and the registration lock at once.
LocksNeverNested ==
    \A t \in Threads : ~(engineMutex = t /\ t \in registerReaders)

\* C9: a Stop that finds nothing running returns success, signals no
\* channel, changes no engine state and causes no ResetPose; after any Stop
\* nothing is running, so a second Stop is such a no-op.
StopWhenIdleIsNoOp ==
    [][\A c \in Callers :
         (pc[c] = "Stop" /\ pc'[c] = "idle")
         => /\ ret'[c] = "nil"
            /\ ~isRunning'
            /\ ~isRunning =>
                 /\ UNCHANGED <<isRunning, current, stopChan, closed,
                                resetSinceStart, engineMutex>>
                 /\ \A k \in Tasks : pc'[k] = pc[k]]_vars

\* C9 witness: an animation ended by itself (its channel was never closed)
\* and every caller's last call is a Stop that returned success.
StopAfterAnimationEnded ==
    /\ chanCount >= 1
    /\ closed = {}
    /\ ~isRunning
    /\ \A c \in Callers : op[c] = "Stop" /\ pc[c] = "idle" /\ ret[c] = "nil"

\* C10: a Stop that finds an animation running returns with the stored
\* channel signalled, the running flag false and the current name empty.
StopSignalsAndClears ==
    [][\A c \in Callers :
         (pc[c] = "Stop" /\ pc'[c] = "idle" /\ isRunning)
         => /\ stopChan \in closed'
            /\ stopChan' = stopChan
            /\ ~isRunning'
            /\ current' = ""
            /\ ret'[c] = "nil"]_vars

\* C10 witness: Stop has returned and the stopped task has not yet looked at
\* its channel.
StoppedBeforeObserved ==
    /\ stopChan \in closed
    /\ ~isRunning
    /\ current = ""
    /\ pc[stopChan] \in {"loop", "Run", "ExecuteCommand"}
    /\ \E c \in Callers : op[c] = "Stop" /\ pc[c] = "idle" /\ ret[c] = "nil"

\* C11 as stated: after a successful Start the previous run's channel has
\* been signalled if and only if an animation was running when Start ran.
PreviousSignalledIffRunning ==
    [][\A c \in Callers :
         (pc[c] = "StartBody" /\ pc'[c] = "idle" /\ ret'[c] = "nil"
            /\ stopChan # 0)
         => (stopChan \in closed' <=> isRunning)]_vars

\* C11 amended: a successful Start leaves running = true, current = name and
\* a stored channel that is new (no earlier run has it) and not signalled,
\* with one task launched on it; Start itself signals the previously stored
\* channel exactly when an animation was running, and signals nothing else.
StartTakesOwnership ==
    [][\A c \in Callers :
         (pc[c] = "StartBody" /\ pc'[c] = "idle" /\ ret'[c] = "nil")
         => /\ isRunning'
            /\ current' = arg[c]
            /\ arg[c] \in animations
            /\ stopChan' \notin 0..chanCount
            /\ stopChan' = chanCount'
            /\ stopChan' \notin closed'
            /\ pc[stopChan'] = "unborn" /\ pc'[stopChan'] = "loop"
            /\ closed' = IF isRunning THEN closed \cup {stopChan} ELSE closed]_vars

\* C11 witness: a Start has returned success after superseding an animation
\* that was running, whose channel it signalled.
StartedOverRunning ==
    /\ chanCount >= 2
    /\ stopChan = chanCount
    /\ isRunning
    /\ (chanCount - 1) \in closed
    /\ \E c \in Callers : op[c] = "Start" /\ pc[c] = "idle" /\ ret[c] = "nil"

\* C12: a run-callback error sends the task to its exit handling and is not
\* handed to any caller; a task that has left its loop never invokes the
\* callback again; the exit handling clears the engine state and resets the
\* pose exactly when the task's channel is still the stored one.
CallbackErrorEndsTask ==
    [][\A k \in Tasks :
         /\ (pc[k] = "ExecuteCommand" /\ site[k] = "Run"
               /\ pc'[k] \notin {"ExecuteCommand", "commandToRawMessage"})
            => (pc'[k] = "exit" /\ ret' = ret /\ UNCHANGED engineVars)
         /\ (pc[k] \in {"exit", "ResetPose", "done"} \/ site[k] = "ResetPose")
            => pc'[k] \notin {"loop", "Run"}
         /\ (pc[k] = "exit" /\ pc'[k] # "exit")
            => IF k = stopChan
               THEN /\ ~isRunning' /\ current' = ""
                    /\ resetSinceStart' = resetSinceStart + 1
                    /\ pc'[k] = "ResetPose"
               ELSE /\ UNCHANGED <<engineVars, resetSinceStart>>
                    /\ pc'[k] = "done"]_vars

\* C12 witness: a task whose channel was never signalled has ended through
\* a callback error, as the owner, and the Start that launched it had
\* returned success.
TaskEndedByCallbackError ==
    \E k \in Tasks :
        /\ k \notin closed
        /\ exitAs[k] = "owner"
        /\ pc[k] = "done"
        /\ ~isRunning
        /\ \E c \in Callers : op[c] = "Start" /\ ret[c] = "nil"

\* C13: over an executor whose calls return, a task whose channel has been
\* signalled reaches its exit handling, whether it is at the top of its
\* loop, in a pose command or waiting in a delay, and however long the
\* delay is.
SignalledTaskReachesExit ==
    \A k \in Tasks :
        (k \in closed /\ Alive(k))
            ~> (pc[k] = "exit" \/ exitAs[k] # "none")

\* C13 witness: a task is waiting in an inter-step delay and its channel
\* has been signalled by Stop.
SignalledDuringDelay ==
    \E k \in Tasks :
        /\ pc[k] = "delay"
        /\ k \in closed
        /\ stopChan = k
        /\ ~isRunning

\* C14: Start with a name that is not registered returns UnknownAnimation
\* and leaves running flag, current name, stored channel, the set of
\* signalled channels and every task as they were.
UnknownStartHasNoEffect ==
    [][\A c \in Callers :
         (pc[c] = "StartBody" /\ pc'[c] # "StartBody" /\ arg[c] \notin animations)
         => /\ ret'[c] = "UnknownAnimation"
            /\ UNCHANGED <<engineVars, closed, chanCount, resetSinceStart>>
            /\ \A k \in Tasks : pc'[k] = pc[k]]_vars

\* C14 witness: Start has failed with UnknownAnimation while an animation
\* is running unsignalled.
UnknownStartWhileRunning ==
    /\ isRunning
    /\ stopChan \notin closed
    /\ \E c \in Callers :
         op[c] = "Start" /\ pc[c] = "idle" /\ ret[c] = "UnknownAnimation"

\* C15: ExecuteCommand on a device that is not connected and active fails
\* with DeviceNotReady (to the API caller, to the run-callback or to
\* ResetPose), releases the device lock, makes no SendMessage call and
\* leaves error count, last error and last-update time as they were.
NotReadyIsRejectedUntouched ==
    [][\A t \in Threads :
         (pc[t] = "ExecuteCommand" /\ pc'[t] # "ExecuteCommand"
            /\ (~isConnected \/ ~isActive))
         => /\ UNCHANGED <<errorCount, lastError, lastUpdate, sendCalls>>
            /\ UNCHANGED <<isConnected, isActive>>
            /\ hmutex' = NoThread
            /\ pc'[t] = (IF site[t] = "Run" THEN "exit"
                          ELSE IF site[t] = "ResetPose" THEN "done" ELSE "idle")
            /\ (site[t] = "api" => ret'[t] = "DeviceNotReady")]_vars

\* C15 witness: a pose command of an API caller has failed with
\* DeviceNotReady on a device that had been connected and disconnected.
RejectedAfterDisconnect ==
    /\ lastUpdate = "Disconnect"
    /\ ~isConnected
    /\ \E c \in Callers :
         op[c] = "SetFingerPose" /\ pc[c] = "idle" /\ ret[c] = "DeviceNotReady"

\* C16: every command given to ExecuteCommand is either handed to the
\* Communicator or rejected: the call leaves ExecuteCommand.
EveryCommandSentOrRejected ==
    \A t \in Threads :
        (pc[t] = "ExecuteCommand")
            ~> (pc[t] \notin {"ExecuteCommand", "commandToRawMessage"})

\* C16: a command of an API caller on a ready device that has been neither
\* handed to the Communicator nor rejected.
ApiCommandNeitherSentNorRejected ==
    \E c \in Callers :
        /\ site[c] = "api"
        /\ pc[c] = "commandToRawMessage"
        /\ ret[c] = ""
        /\ sendCalls = 0
        /\ errorCount = 0

\* C17: on a ready device an ExecuteCommand that has passed the readiness
\* test makes its SendMessage call.
ReadyCommandMakesOneSend ==
    \A t \in Threads :
        (pc[t] = "commandToRawMessage" /\ isConnected /\ isActive)
            ~> (sendCalls >= 1)

\* C17: ExecuteCommand on a connected, active device has passed the
\* readiness test and no SendMessage call has been made.
ReadyCommandBeforeSend ==
    \E t \in Threads :
        /\ pc[t] = "commandToRawMessage"
        /\ hmutex = t
        /\ isConnected /\ isActive
        /\ lastUpdate = "Connect"
        /\ sendCalls = 0

\* C18: every message the encoder returns carries the numeric id of the
\* hand side the device has when the message is encoded, which is the id of
\* Left (0x28) or of Right (0x27); a successful SetHandType(h) makes h the
\* hand side, a rejected one leaves it.
WireIdIsCurrentHandType ==
    [][/\ (call'.fn = "commandToRawMessage" /\ result'.err = "")
          => /\ result'.ID = handType
             /\ handType' = handType
             /\ result'.ID \in {HAND_TYPE_LEFT, HAND_TYPE_RIGHT}
       /\ call'.fn = "SetHandType"
          => handType' = (IF result'.err = "" THEN call'.handType ELSE handType)
      ]_vars

\* C18 witness: the device was built as a right hand, SetHandType(Left) has
\* succeeded, and a message encoded afterwards carries 0x28.
EncodedAfterHandTypeChange ==
    /\ call.fn = "commandToRawMessage"
    /\ result.err = ""
    /\ handType = HAND_TYPE_LEFT
    /\ result.ID = HAND_TYPE_LEFT

EncoderRejects ==
    call.fn = "commandToRawMessage"
    => /\ Len(result.Data) <= CanDataLimit
       /\ IF call.type \notin {"SetFingerPose", "SetPalmPose"}
            THEN result = [NoResult EXCEPT !.err = "UnsupportedCommand"]
          ELSE IF 1 + Len(call.payload) > CanDataLimit
            THEN result = [NoResult EXCEPT !.err = "PayloadTooLong"]
          ELSE /\ result.err = ""
               /\ result.Data =
                    <<IF call.type = "SetFingerPose" THEN FingerOpcode
                                                     ELSE PalmOpcode>>
                    \o call.payload

\* C20 witness: a palm command whose payload alone has 8 bytes was rejected
\* with PayloadTooLong.
LongPayloadRejected ==
    /\ call.fn = "commandToRawMessage"
    /\ call.type = "SetPalmPose"
    /\ Len(call.payload) = CanDataLimit
    /\ result.err = "PayloadTooLong"

\* C21: on a device built with the default hand side and then connected, a
\* SetFingerPose call of an API goroutine hands exactly one message to the
\* Communicator and returns.
FingerPoseAfterConnectIsSent ==
    \A c \in Callers :
        (/\ site[c] = "api"
         /\ pc[c] = "ExecuteCommand"
         /\ isConnected /\ isActive
         /\ handType = HAND_TYPE_RIGHT
         /\ chanCount = 0)
            ~> (pc[c] = "idle" /\ ret[c] = "nil" /\ sendCalls = 1)

\* C21: the first operations on the new device were Connect and
\* SetFingerPose; the call is inside ExecuteCommand with the write lock and
\* nothing has been handed to the Communicator.
FingerPoseAfterConnectWaits ==
    \E c \in Callers :
        /\ op[c] = "SetFingerPose"
        /\ pc[c] = "commandToRawMessage"
        /\ hmutex = c
        /\ chanCount = 0
        /\ handType = HAND_TYPE_RIGHT
        /\ lastUpdate = "Connect"
        /\ errorCount = 0
        /\ sendCalls = 0

\* C22: the encoder turns a SetFingerPose command into the byte 0x01
\* followed by the payload bytes in their order, a SetPalmPose command into
\* 0x04 followed by the payload bytes in their order, addressed to the
\* interface the device was configured with; a command with a pose of the
\* documented length (6 finger bytes, 4 palm bytes) is always encoded.
EncoderPrefixesOpcode ==
    call.fn = "commandToRawMessage" =>
        LET opcode == IF call.type = "SetFingerPose" THEN FingerOpcode
                      ELSE PalmOpcode
            poseLen == IF call.type = "SetFingerPose" THEN FingerPoseLen
                       ELSE PalmPoseLen
        IN  /\ (call.type \in {"SetFingerPose", "SetPalmPose"} /\ result.err = "")
                => /\ Len(result.Data) = Len(call.payload) + 1
                   /\ result.Data[1] = opcode
                   /\ \A i \in 1..Len(call.payload) :
                          result.Data[i + 1] = call.payload[i]
                   /\ result.Interface = canInterface
            /\ (call.type \in {"SetFingerPose", "SetPalmPose"}
                    /\ Len(call.payload) = poseLen)
                => result.err = ""

\* C22 witness: a palm command whose four bytes all differ has been encoded.
PalmCommandEncoded ==
    /\ call.fn = "commandToRawMessage"
    /\ call.type = "SetPalmPose"
    /\ call.payload = <<10, 20, 30, 40>>
    /\ result.err = ""
    /\ result.Data = <<PalmOpcode, 10, 20, 30, 40>>

\* C23: for every pose byte b and every random draw the perturbed byte o
\* satisfies max(0, b - d) <= o <= min(255, b + d), with d = 5 on the finger
\* channel and d = 8 on the palm channel; the output never wraps.
PerturbBoundedAndClamped ==
    call.fn = "perturb" =>
        LET b == call.payload[1]
            o == result.Data[1]
            d == IF call.type = "SetFingerPose" THEN 5 ELSE 8
            lo == IF b - d < 0 THEN 0 ELSE b - d
            hi == IF b + d > 255 THEN 255 ELSE b + d
        IN  lo <= o /\ o <= hi

\* C23 witness: a palm byte less than 8 below 255 has been perturbed up to
\* the clamp.
PerturbClampedAtTop ==
    /\ call.fn = "perturb"
    /\ call.type = "SetPalmPose"
    /\ call.payload = <<250>>
    /\ result.Data = <<255>>

\* C24: CreateDevice with a model name that has no table entry fails with
\* UnknownModel, invokes no constructor and leaves the table (the registered
\* names and their constructors) as it was.
UnknownModelLeavesRegistry ==
    [][(call'.fn = "CreateDevice" /\ call'.type \notin DOMAIN constructors)
         => /\ result'.err = "UnknownModel"
            /\ invoked' = ""
            /\ constructors' = constructors]_vars

\* C24 witness: with only "L10" registered, a CreateDevice of another name
\* has been refused.
UnknownModelRefused ==
    /\ call.fn = "CreateDevice"
    /\ call.type = "O7"
    /\ DOMAIN constructors = {"L10"}
    /\ result.err = "UnknownModel"
    /\ invoked = ""

\* C25: the stored sampling rate is within 1..1000 in every state;
\* SetSamplingRate(r) succeeds, and stores r, exactly when 1 <= r <= 1000,
\* and a rejected call leaves the stored rate as it was.
SamplingRateWithinBounds ==
    [][/\ samplingRate \in 1..1000
       /\ samplingRate' \in 1..1000
       /\ call'.fn = "SetSamplingRate" =>
            LET r == call'.payload[1]
            IN  IF 1 <= r /\ r <= 1000
                THEN result'.err = "" /\ samplingRate' = r
                ELSE result'.err # "" /\ samplingRate' = samplingRate]_vars

\* C25 witness: after the rate had been set to the largest one, a call with
\* rate 0 has been rejected.
ZeroRateRejected ==
    /\ call.fn = "SetSamplingRate"
    /\ call.payload = <<0>>
    /\ result.err = "InvalidSamplingRate"
    /\ samplingRate = 1000

EachChannelClosedOnce ==
    [][/\ isRunning => (stopChan \in 1..chanCount /\ stopChan \notin closed)
       /\ isRunning' => (stopChan' \in 1..chanCount' /\ stopChan' \notin closed')
       /\ closed' # closed => (isRunning /\ closed' = closed \cup {stopChan})]_vars

\* C27 witness: one channel was closed by the Start that replaced it, the
\* next one by Stop.
BothChannelsClosed ==
    /\ chanCount = 2
    /\ closed = {1, 2}
    /\ ~isRunning
    /\ \E c \in Callers : op[c] = "Stop" /\ pc[c] = "idle"

\* C28: from the moment an owner task has begun its exit handling until its
\* ResetPose has returned, no Start changes the engine state: flag, name
\* and stored channel stay as the exit handling left them, no channel is
\* made and no newer task exists, so no pose of a later animation precedes
\* the reset.
ResetBeforeLaterStart ==
    [][\A k \in Tasks :
         (exitAs[k] = "owner"
             /\ pc[k] \in {"ResetPose", "ExecuteCommand", "commandToRawMessage"})
         => /\ chanCount = k
            /\ UNCHANGED <<isRunning, current, stopChan, chanCount>>
            /\ \A j \in Tasks : j > k => pc'[j] = "unborn"]_vars

\* C28 witness: a Start was called after the owner task began its exit
\* handling and waits for the engine lock while the reset is under way.
StartWaitsForReset ==
    \E c \in Callers, k \in Tasks :
        /\ pc[c] = "Start"
        /\ exitAs[k] = "owner"
        /\ pc[k] = "ExecuteCommand"
        /\ site[k] = "ResetPose"
        /\ engineMutex = k

NotReadyAnimationEndsByItself ==
    /\ [][(~isConnected \/ ~isActive) => sendCalls' = sendCalls]_vars
    /\ \A k \in Tasks :
          (Alive(k) /\ (~isConnected \/ ~isActive))
              ~> (pc[k] = "done" \/ (isConnected /\ isActive))
    /\ (isRunning /\ (~isConnected \/ ~isActive))
          ~> (~isRunning \/ (isConnected /\ isActive))

\* C30 witness: Disconnect completed while an animation was running; no
\* Stop and no later Start signalled the task, its pose command failed, it
\* ran its exit handling as the owner and the flag is false.
EndedAfterDisconnect ==
    \E k \in Tasks :
        /\ lastUpdate = "Disconnect"
        /\ ~isConnected
        /\ closed = {}
        /\ pc[k] = "done"
        /\ exitAs[k] = "owner"
        /\ ~isRunning
        /\ sendCalls = 0

\* C31: whenever the running flag is set and the engine lock is free, the
\* task bound to the stored channel has been launched and has not finished
\* its exit handling.
RunningMeansTaskAlive ==
    (isRunning /\ engineMutex = NoThread)
        => (stopChan \in Tasks /\ Alive(stopChan))

\* C31 witness: an earlier task is gone, a later animation has been started
\* and is reported running.
RunningAfterEarlierTaskGone ==
    /\ isRunning
    /\ engineMutex = NoThread
    /\ stopChan = 2
    /\ pc[1] = "done"
    /\ exitAs[1] = "owner"


\* C32: with the engine lock free, the running flag is set exactly when the
\* current animation name is not empty, and a current name that is not empty
\* is a registered animation.
RunningIffNamed ==
    engineMutex = NoThread
        => /\ isRunning <=> current # ""
           /\ current # "" => current \in animations

\* C32 witness: an animation has ended by itself, so the flag and the name
\* were cleared by the exit handling, and a later animation is running under
\* a registered name.
NamedAgainAfterExit ==
    /\ engineMutex = NoThread
    /\ exitAs[1] = "owner"
    /\ pc[1] = "done"
    /\ isRunning
    /\ current = "sway"


\* C33: in the legacy animation code the flag of an interface is set
\* whenever an animation goroutine of that interface is running and has not
\* been sent a stop signal.
ActiveWhileUnsignalledRuns ==
    \A k \in LegacyTasks :
        (LegacyRunning(k) /\ k \notin stopSent)
            => AnimationActive[DefaultInterface]

\* C33 witness: a second animation was started while the first one ran; the
\* first has received its signal and is about to run its deferred function.
FirstExitsWhileSecondRuns ==
    /\ legacyPc[1] = "defer"
    /\ 1 \in stopSent
    /\ LegacyRunning(2)
    /\ 2 \notin stopSent
    /\ AnimationActive[DefaultInterface]


\* C34: the device manager keeps one device per id.  RegisterDevice of an id
\* that is present fails and leaves the map as it is, and of an absent id
\* stores the caller's device; RemoveDevice and GetDevice of an absent id
\* fail and leave the map as it is; of the RegisterDevice calls made for an
\* id while it is not removed, one succeeds and no more.
ManagerKeepsOnePerId ==
    [][/\ \A c \in ManagerCallers :
            (mgrPc[c] = "RegisterDevice" /\ mgrPc'[c] = "idle")
            => IF mgrCall[c].id \in DOMAIN devices
               THEN /\ mgrCall'[c].err = "AlreadyExists"
                    /\ devices' = devices
               ELSE /\ mgrCall'[c].err = "nil"
                    /\ DOMAIN devices' = DOMAIN devices \cup {mgrCall[c].id}
                    /\ devices'[mgrCall[c].id] = c
                    /\ \A i \in DOMAIN devices : devices'[i] = devices[i]
       /\ \A c \in ManagerCallers :
            (mgrPc[c] \in {"RemoveDevice", "GetDevice"} /\ mgrPc'[c] = "idle"
               /\ mgrCall[c].id \notin DOMAIN devices)
            => /\ mgrCall'[c].err = "NotFound"
               /\ devices' = devices
       /\ \A i \in DeviceIds :
            /\ Cardinality(registered'[i]) <= 1
            /\ registered'[i] # {} <=> i \in DOMAIN devices']_vars

\* C34 witness: two callers registered the same id at the same time; one
\* has succeeded and the other was refused.
OneOfTwoRegistersRefused ==
    \E c, d \in ManagerCallers :
        /\ c # d
        /\ mgrPc[c] = "idle" /\ mgrPc[d] = "idle"
        /\ mgrCall[c].op = "RegisterDevice" /\ mgrCall[d].op = "RegisterDevice"
        /\ mgrCall[c].id = mgrCall[d].id
        /\ mgrCall[c].err = "nil"
        /\ mgrCall[d].err = "AlreadyExists"
        /\ devices[mgrCall[c].id] = c


\* C35: the hand side of a device is Left or Right in every state: the
\* constructor gives Left for hand_type "left" and Right for anything else,
\* SetHandType of any other value fails and leaves the hand side, and no
\* encoded message carries the id 0x00.
HandSideLeftOrRight ==
    /\ handType \in {HAND_TYPE_LEFT, HAND_TYPE_RIGHT}
    /\ [][/\ handType' \in {HAND_TYPE_LEFT, HAND_TYPE_RIGHT}
          /\ call'.fn = "NewL10Hand"
             => handType' = (IF call'.type = "left" THEN HAND_TYPE_LEFT
                             ELSE HAND_TYPE_RIGHT)
          /\ (call'.fn = "SetHandType"
                /\ call'.handType \notin {HAND_TYPE_LEFT, HAND_TYPE_RIGHT})
             => /\ result'.err = "InvalidHandType"
                /\ handType' = handType
          /\ (call'.fn = "commandToRawMessage" /\ result'.err = "")
             => result'.ID # HAND_TYPE_UNKNOWN
         ]_vars

\* C35 witness: SetHandType(Unknown) was refused on a left hand.
UnknownHandTypeRefused ==
    /\ call.fn = "SetHandType"
    /\ call.handType = HAND_TYPE_UNKNOWN
    /\ result.err = "InvalidHandType"
    /\ handType = HAND_TYPE_LEFT


\* C36: the connected flag and the active flag of the device are equal in
\* every state: both are false after construction, Connect sets both,
\* Disconnect clears both, and no other step changes either of them.
ConnectedEqualsActive ==
    /\ ~isConnected /\ ~isActive
    /\ [][/\ isConnected' = isActive'
          /\ \A c \in Callers :
               /\ (pc[c] = "Connect" /\ pc'[c] = "idle")
                  => (isConnected' /\ isActive')
               /\ (pc[c] = "Disconnect" /\ pc'[c] = "idle")
                  => (~isConnected' /\ ~isActive')
          /\ (isConnected' # isConnected \/ isActive' # isActive)
             => \E c \in Callers :
                  /\ pc[c] \in {"Connect", "Disconnect"}
                  /\ pc'[c] = "idle"
         ]_vars

\* C36 witness: the device was connected, a pose command was refused after
\* Disconnect, and both flags are false.
RefusedWithBothFlagsCleared ==
    /\ lastUpdate = "Disconnect"
    /\ ~isConnected
    /\ ~isActive
    /\ \E c \in Callers :
         /\ op[c] = "SetFingerPose"
         /\ pc[c] = "idle"
         /\ ret[c] = "DeviceNotReady"


\* C37: a ResetPose whose neutral finger command has passed the readiness
\* test hands the finger message to the Communicator, goes on to the palm
\* command and returns.
ResetSendsFingerThenPalm ==
    \A k \in Tasks :
        (site[k] = "ResetPose" /\ pc[k] = "commandToRawMessage")
            ~> (pc[k] = "done" /\ sendCalls >= 1)

\* C37: the exit handling of a task has called ResetPose on a connected
\* device; the neutral finger command is inside ExecuteCommand with the
\* write lock, nothing was handed to the Communicator, and the palm command
\* has not been reached.
ResetWaitsInsideFingerCommand ==
    \E k \in Tasks :
        /\ site[k] = "ResetPose"
        /\ pc[k] = "commandToRawMessage"
        /\ hmutex = k
        /\ engineMutex = k
        /\ isConnected /\ isActive
        /\ sendCalls = 0


\* C38: the setters leave the array they are given as the caller made it;
\* every byte they have written into their own slice is within the delta of
\* the value the caller put at that place (cut to the byte range), however
\* often the array has been passed before.
SetterLeavesCallerPose ==
    /\ storedPose = poseBase
    /\ setter.pc \in {"range", "ExecuteCommand"}
       => /\ Len(perturbedPose) = Len(poseBase)
          /\ \A j \in 1..Len(perturbedPose) :
               IF j < setter.i
               THEN /\ perturbedPose[j] >= poseBase[j] - deltaOf(setter.fn)
                    /\ perturbedPose[j] <= poseBase[j] + deltaOf(setter.fn)
               ELSE perturbedPose[j] = 0

\* C38 witness: the sway animation's right pose is passed for the second
\* time; this pass took the greatest offset for every byte, and the array
\* still holds 208 four times.
PoseSentAgainFromSameBase ==
    /\ setter.sends = 1
    /\ setter.fn = "SetPalmPose"
    /\ setter.pc = "ExecuteCommand"
    /\ storedPose = rightPose
    /\ perturbedPose = [j \in 1..PalmPoseLen |-> 208 + PalmDelta]

====
